---- MODULE Spec2Model ----
(***************************************************************************)
(* State machine of the VideoGenerator component (src/unnamed/part_000):   *)
(* the scene timeline, scene generation (single and auto-generation loop), *)
(* manual voiceover, detached auto-narration, merge completion, cooldown.  *)
(*                                                                         *)
(* Conventions.                                                            *)
(*  - activeSceneIndex and sceneIndex are 0-based as in the source; the    *)
(*    scene at source index i is timeline[i + 1].                          *)
(*  - A URL is an opaque token: a video url is the number of the request   *)
(*    that produced it, an audio url is the number of the speech call     *)
(*    that produced it, 0 is "undefined".  A merged url is the pair        *)
(*    <<videoUrl, audioUrl>> of the inputs mergeVideoAudio was called      *)
(*    with, <<>> is "undefined".                                           *)
(*  - isMerging is only ever written by the source, never read; undefined  *)
(*    and false are both FALSE here.                                       *)
(*  - An async handler keeps the values of the render it was created in   *)
(*    (timeline, activeSceneIndex, autoGenCount, ...): those are stored   *)
(*    in the handler's record when it starts; setTimeline(prev => ...)    *)
(*    updaters act on the current timeline.                               *)
(*  - An error message is the set of the marker substrings it contains.   *)
(*  - runLog and the fields calls, appended and stopSeen of an invocation  *)
(*    are history: they record what a run did and are read by no action.   *)
(***************************************************************************)
EXTENDS Integers, Sequences, FiniteSets, TLC

\* ---- bounds of the model
MaxClock == 3   \* clock readings 0..MaxClock; every request takes >= 1 tick
MaxAudio == 2   \* speech calls that succeed
MaxProcs == 2   \* handleStartGeneration invocations alive at once
MaxLoads == 3   \* calls of video.load() in one mergeVideoAudio call

\* ---- program constants
ThrottleMs == 5000
VideoCoolDown == 60
AudioCoolDown == 30
DefaultSceneDuration == 8
DefaultAutoGenCount == 3
MinAutoGenCount == 1
MaxAutoGenCount == 20
MinSceneDuration == 1
MaxSceneDuration == 15
FallbackDuration == 5
TransitionMs == 800
MsPerSecond == 1000
DefaultRetries == 3
DefaultRetryDelay == 10000
VeoRetryDelay == 15000

VARIABLES
  timeline,            \* useState<VideoScene[]>            (part_000:145)
  activeSceneIndex,    \* useState<number>(0)               (part_000:147)
  sceneDuration,       \* useState<number>(8)               (part_000:155)
  isGenerating,        \* useState(false)                   (part_000:135)
  isAutoGenerating,    \* useState(false)                   (part_000:136)
  autoGenCount,        \* useState<number>(3)               (part_000:137)
  stopAutoGeneration,  \* stopAutoGenerationRef.current     (part_000:139)
  coolDown,            \* useState(0)                       (part_000:142)
  error,               \* useState<string | null>(null)     (part_000:176)
  isGeneratingAudio,   \* useState(false)                   (part_000:167)
  now,                 \* Date.now()
  nextAudio,           \* number of the next blob url made by generateSpeech
  proc,                \* the live handleStartGeneration invocations
  vo,                  \* the live handleGenerateVoiceover invocation
  narrations,          \* the detached auto-audio tasks of executeGeneration
  runLog,              \* what the auto-generation run that returned last did
  isPlayingAll,        \* useState(false)                   (part_000:148)
  isLooping,           \* useState(false)                   (part_000:161)
  activePlayer,        \* useState<'A' | 'B'>('A')          (part_000:185)
  isTransitioning,     \* useState(false)                   (part_000:186)
  transitionType,      \* useState<TransitionType>('cut')   (part_000:187)
  transTimer,          \* the pending setTimeout of line 604
  playTimer,           \* the pending setTimeout of line 677, in ms
  srcA,                \* videoPlayerARef.current.src
  srcB,                \* videoPlayerBRef.current.src
  audioSrc,            \* audioPlayerRef.current.src
  audioPlaying,        \* !audioPlayerRef.current.paused
  selectedSceneIds,    \* useState<Set<string>>(new Set()) (part_000:146)
  retryCall,           \* a call of retryOperation (ChatBot.tsx:231)
  merge,               \* a call of mergeVideoAudio        (part_000:37)
  liveUrls,            \* the object urls made by URL.createObjectURL and
                       \* not revoked
  lastEnded,           \* the last ended event of a video element: its
                       \* buffer and the buffer its handler played
  isApiKeyError        \* useState(false)                   (part_000:177)

\* what the handlers of the playback side write
modeVars == <<isPlayingAll, isLooping, activePlayer, isTransitioning,
              transitionType, transTimer>>
\* what the playback effect (628-684) writes
effectVars == <<playTimer, srcA, srcB, audioSrc, audioPlaying>>

vars == <<timeline, activeSceneIndex, sceneDuration, isGenerating,
          isAutoGenerating, autoGenCount, stopAutoGeneration, coolDown, error,
          isGeneratingAudio, now, nextAudio, proc, vo, narrations, runLog,
          modeVars, effectVars, selectedSceneIds, retryCall, merge, liveUrls,
          lastEnded, isApiKeyError>>

\* the calls of the two helper routines
helperVars == <<retryCall, merge>>
\* what every handler but the selection checkbox and clearTimeline leaves
\* alone
sideVars == <<selectedSceneIds, liveUrls, lastEnded, helperVars,
              isApiKeyError>>
\* what the handlers that make an object url leave alone
keptVars == <<selectedSceneIds, lastEnded, helperVars, isApiKeyError>>
\* what the handlers that run executeGeneration, which writes the key
\* flag (428, 543), leave alone
runVars == <<sceneDuration, selectedSceneIds, liveUrls, lastEnded,
             helperVars, modeVars, effectVars>>

\* what the generation handlers leave alone
audioVars == <<isGeneratingAudio, nextAudio, vo, narrations>>
\* what the audio handlers leave alone
genVars == <<isGenerating, isAutoGenerating, autoGenCount, stopAutoGeneration,
             now, proc, runLog>>
\* what the generation and audio handlers that call no setTimeline leave
\* alone
otherVars == <<sceneDuration, sideVars, modeVars, effectVars>>

Procs == 1..MaxProcs

NoUrl == 0
NoMerge == <<>>
NoError == "null"
NoRun == [N |-> 0, calls |-> 0, appended |-> 0, outcome |-> "none"]

Max(a, b) == IF a >= b THEN a ELSE b
Min(a, b) == IF a <= b THEN a ELSE b

\* ---- error messages of the generative service, as sets of markers
VideoErrors ==
  { {"RESOURCE_EXHAUSTED"}, {"RESOURCE_EXHAUSTED", "429"},
    {"PERMISSION_DENIED"}, {"safety filters"}, {"503"} }

AudioErrors == { {"RESOURCE_EXHAUSTED", "429"}, {"RESOURCE_EXHAUSTED"}, {"503"} }

\* line 527
IsVideoQuotaError(msg) == msg \cap {"429", "quota", "RESOURCE_EXHAUSTED"} # {}

\* lines 535-541
IsVideoAuthError(msg) ==
  msg \cap {"Requested entity was not found", "API key", "403",
            "PERMISSION_DENIED", "billing"} # {}

\* The message executeGeneration's catch block passes to setError: the auth
\* test of line 535 reads the message the quota branch has already rewritten.
VideoErrorMessage(msg) ==
  IF IsVideoQuotaError(msg) THEN "Quota Limit Reached"
  ELSE IF IsVideoAuthError(msg) THEN "Access Denied"
  ELSE "Video generation failed"

\* lines 535-544: setIsApiKeyError(true) when the message, which the quota
\* branch (529) may have rewritten, passes the auth test; no write otherwise
ApiKeyErrorAfterCatch(flag, msg) ==
  IF ~IsVideoQuotaError(msg) /\ IsVideoAuthError(msg) THEN TRUE ELSE flag

\* line 453
NoInputMessage == "Please provide an image or a prompt to start."

\* line 415: e.message.includes('429')
IsAudioQuotaError(msg) == "429" \in msg

\* ---- scenes
NewScene(id, url, duration) ==
  [id |-> id, url |-> url, asset |-> url, duration |-> duration,
   transition |-> "cut", audioUrl |-> NoUrl, audioScript |-> NoUrl,
   mergedUrl |-> NoMerge, isMerging |-> FALSE]

\* timeline[i] of the source (0-based); "undefined" is the record with id 0
Undefined == [id |-> 0, url |-> NoUrl]
SceneAt(tl, i) ==
  IF i >= 0 /\ i < Len(tl) THEN [id |-> tl[i + 1].id, url |-> tl[i + 1].url]
  ELSE Undefined

\* { ...s, ...patch }: the object spread of the setTimeline updaters
Spread(s, patch) ==
  [k \in DOMAIN s \cup DOMAIN patch |->
     IF k \in DOMAIN patch THEN patch[k] ELSE s[k]]
\* { ...s, audioUrl, audioScript, isMerging: true }
PatchAudioWith(a) == [audioUrl |-> a, audioScript |-> a, isMerging |-> TRUE]
\* { ...s, mergedUrl, isMerging: false }
PatchMergedWith(m) == [mergedUrl |-> m, isMerging |-> FALSE]
\* { ...s, isMerging: false }
PatchMergeStillOn == [isMerging |-> TRUE]
PatchMergeFailed == [isMerging |-> FALSE]

\* count, N: the loop's variables; req: the url of the pending request;
\* autoAudio, dur, ext, base: isAutoAudio, sceneDuration, isExtension and
\* lastScene.asset of the render the handler belongs to; delay: the pending
\* setTimeout.  History: calls, the calls of executeGeneration the run has
\* made; appended, the scenes it has appended; stopSeen, whether
\* handleStopAuto ran during it.
IdleProc ==
  [pc |-> "idle", auto |-> FALSE, N |-> 0, count |-> 0, calls |-> 0,
   appended |-> 0, req |-> 0, autoAudio |-> FALSE, dur |-> 0, ext |-> FALSE,
   base |-> 0, delay |-> 0, stopSeen |-> FALSE]

\* no setTimeout pending (never set, fired, or cleared by clearTimeout)
NoTimer == -1
NoTransTimer == [ms |-> NoTimer, nextIndex |-> 0]
\* the src of a media element: <<>> none, <<url>> a clip, <<url, audioUrl>>
\* the merge of the two
NoMedia == <<>>

\* no call of retryOperation, of mergeVideoAudio
IdleRetry == [pc |-> "idle"]
IdleMerge == [pc |-> "idle"]
\* no video element has fired ended
NoEnded == [player |-> "none", played |-> "none"]
\* no object url is live
NoUrls == [video |-> {}, audio |-> {}, merged |-> {}]

IdleVo ==
  [pc |-> "idle", sceneIndex |-> 0, snap |-> Undefined, audio |-> NoUrl]

Init ==
  /\ timeline = <<>>
  /\ activeSceneIndex = 0
  /\ sceneDuration = DefaultSceneDuration
  /\ isGenerating = FALSE
  /\ isAutoGenerating = FALSE
  /\ autoGenCount = DefaultAutoGenCount
  /\ stopAutoGeneration = FALSE
  /\ coolDown = 0
  /\ error = NoError
  /\ isGeneratingAudio = FALSE
  /\ now = 0
  /\ nextAudio = 1
  /\ proc = [p \in Procs |-> IdleProc]
  /\ vo = IdleVo
  /\ narrations = {}
  /\ runLog = NoRun
  /\ isPlayingAll = FALSE
  /\ isLooping = FALSE
  /\ activePlayer = "A"
  /\ isTransitioning = FALSE
  /\ transitionType = "cut"
  /\ transTimer = NoTransTimer
  /\ playTimer = NoTimer
  /\ srcA = NoMedia
  /\ srcB = NoMedia
  /\ audioSrc = NoUrl
  /\ audioPlaying = FALSE
  /\ selectedSceneIds = {}
  /\ retryCall = IdleRetry
  /\ merge = IdleMerge
  /\ liveUrls = NoUrls
  /\ lastEnded = NoEnded
  /\ isApiKeyError = FALSE

\* ------------------------------------------------------------------------
\* Playback: the effect of lines 628-684 and getPlayerClasses
\* ------------------------------------------------------------------------

\* the step of the model's clock: the largest that divides one second and
\* the transition window
TickMs ==
  CHOOSE d \in 1..TransitionMs :
    /\ MsPerSecond % d = 0 /\ TransitionMs % d = 0
    /\ \A e \in 1..TransitionMs :
         (MsPerSecond % e = 0 /\ TransitionMs % e = 0) => e <= d

Flip(player) == IF player = "A" THEN "B" ELSE "A"

HasScene(tl, i) == i >= 0 /\ i < Len(tl)

\* line 632: scene.mergedUrl || scene.url
MediaOf(scene) ==
  IF scene.mergedUrl # NoMerge THEN scene.mergedUrl ELSE <<scene.url>>

\* handleDownloadActiveVideo (272) and handleDownloadScene (287):
\* scene.mergedUrl || scene.url
DownloadUrl(scene) ==
  IF scene.mergedUrl # NoMerge THEN scene.mergedUrl ELSE <<scene.url>>

\* handleDownloadProjectZip: the video that scene_NN_video.mp4 holds (317-319),
\* which is the one merge_movie.bat and list.txt build the movie from
\* (337-352); the merged asset is only added beside it (329-333)
ZipVideo(scene) == <<scene.url>>

\* line 676: (scene.duration || 5) * 1000
DurationMs(scene) ==
  (IF scene.duration = 0 THEN FallbackDuration ELSE scene.duration) * MsPerSecond

\* lines 662-664: audioUrl && !isMergedPlaying
UseSeparateAudioAlways(scene) == scene.audioUrl # NoUrl
UseSeparateAudio(scene) ==
  scene.audioUrl # NoUrl /\ ~(scene.mergedUrl # NoMerge)

\* The effect, run after a render in which one of its dependencies
\* (activeSceneIndex, activePlayer, isPlayingAll, timeline, isLooping) has
\* changed: the cleanup of the run before clears its timer (682), then the
\* body runs on the new values.
PlaybackEffect ==
  IF ~HasScene(timeline', activeSceneIndex')
  THEN \* line 630
       /\ playTimer' = NoTimer
       /\ UNCHANGED <<srcA, srcB, audioSrc, audioPlaying>>
  ELSE LET scene == timeline'[activeSceneIndex' + 1]
           currentUrl == MediaOf(scene)
       IN  /\ srcA' = IF isPlayingAll' /\ activePlayer' # "A"
                      THEN srcA ELSE currentUrl
           /\ srcB' = IF isPlayingAll' /\ activePlayer' = "B"
                      THEN currentUrl ELSE srcB
           /\ IF UseSeparateAudio(scene)
              THEN /\ audioSrc' = scene.audioUrl
                   /\ audioPlaying' =
                        IF isPlayingAll' THEN TRUE
                        ELSE audioPlaying /\ audioSrc = scene.audioUrl
              ELSE /\ audioSrc' = audioSrc
                   /\ audioPlaying' = FALSE
           /\ playTimer' = IF isPlayingAll' THEN DurationMs(scene)
                           ELSE NoTimer

\* the effect after a handler that called no setTimeline
PlaybackEffectIfChanged ==
  IF <<activeSceneIndex', activePlayer', isPlayingAll', isLooping'>>
       # <<activeSceneIndex, activePlayer, isPlayingAll, isLooping>>
  THEN PlaybackEffect
  ELSE UNCHANGED effectVars

\* getPlayerClasses (698-705): whether the classes of the buffer show it
AnyBufferVisible(player, active, transitioning, type) == TRUE
Visible(player, active, transitioning, type) ==
  LET isActive == active = player
  IN  IF ~transitioning THEN isActive          \* opacity-100 / opacity-0
      ELSE IF type = "fade" THEN ~isActive     \* opacity-0 / opacity-100
      ELSE IF type = "slide" THEN ~isActive    \* -translate-x-full / translate-x-0
      ELSE TRUE                                \* opacity-100 for both

\* ------------------------------------------------------------------------
\* Scene generation: handleStartGeneration, executeGeneration, handleStopAuto
\* ------------------------------------------------------------------------

FreeProcs == {p \in Procs : proc[p].pc = "idle"}
FirstFree == CHOOSE p \in FreeProcs : \A q \in FreeProcs : p <= q

\* line 570: the delay awaited after a successful call, 0 for none
ThrottleDelayNone(count, N, stop) == 0
ThrottleDelay(count, N, stop) ==
  IF count < N /\ ~stop THEN ThrottleMs ELSE 0

\* line 574, then the loop test of line 561
LoopContinues(count, N, stop) ==
  LET keepGoing == ~(count >= N \/ stop)
  IN  keepGoing /\ ~stop /\ count < N

\* lines 563-566: whether the loop is left when executeGeneration returned
\* success
BreaksNever(success) == FALSE
BreaksOnFailure(success) == ~success

\* catch (509-546): the timeline after a failed call; the block has no
\* setTimeline call
TimelineWithHalfFormedScene(tl, r) == Append(tl, NewScene(now, NoUrl, r.dur))
TimelineAfterFailure(tl, r) == tl

\* executeGeneration lines 427-470, up to the await of generateVeoVideo, for
\* the invocation with record r.  Every request starts at a later clock
\* reading than the one before it.
IssueRequest(p, r) ==
  /\ now < MaxClock
  /\ now' = now + 1
  /\ error' = NoError
  /\ isApiKeyError' = FALSE       \* line 428
  /\ isGenerating' = TRUE
  /\ proc' = [proc EXCEPT ![p] =
                [r EXCEPT !.pc = "request", !.req = now + 1,
                          !.calls = r.calls + 1, !.delay = 0]]

\* the handler returns: line 576 at the end of the loop
Return(p, r, outcome) ==
  /\ proc' = [proc EXCEPT ![p] = IdleProc]
  /\ isAutoGenerating' = IF r.auto THEN FALSE ELSE isAutoGenerating
  /\ runLog' = IF r.auto
               THEN [N |-> r.N, calls |-> r.calls, appended |-> r.appended,
                     outcome |-> outcome]
               ELSE runLog

\* handleStartGeneration (552-578) up to its first await.  inputOk: an image
\* or a non-blank prompt is present; autoAudio: the isAutoAudio checkbox.
HandleStartGeneration(inputOk, autoAudio) ==
  /\ ~isGenerating                \* the start button is rendered (949)
  /\ coolDown = 0                 \* disabled (954) and guard (553)
  /\ FreeProcs # {}
  /\ LET p == FirstFree
         last == SceneAt(timeline, Len(timeline) - 1)
         r == [IdleProc EXCEPT !.auto = isAutoGenerating,
                               !.N = IF isAutoGenerating THEN autoGenCount ELSE 1,
                               !.autoAudio = autoAudio,
                               !.dur = sceneDuration,
                               !.ext = Len(timeline) > 0,
                               !.base = last.url]
     IN  /\ stopAutoGeneration' = FALSE
         /\ IF ~r.ext /\ ~inputOk
            THEN \* line 453 throws before any request; catch and finally run
                 /\ error' = NoInputMessage
                 /\ isApiKeyError' = FALSE       \* line 428
                 /\ isGenerating' = FALSE
                 /\ proc' = proc
                 /\ isAutoGenerating' = IF r.auto THEN FALSE ELSE isAutoGenerating
                 /\ runLog' = IF r.auto
                              THEN [N |-> r.N, calls |-> 1, appended |-> 0,
                                    outcome |-> "failed"]
                              ELSE NoRun
                 /\ timeline' = TimelineAfterFailure(timeline, r)
                 /\ UNCHANGED now
            ELSE /\ IssueRequest(p, r)
                 /\ runLog' = NoRun
                 /\ UNCHANGED <<isAutoGenerating, timeline>>
  /\ UNCHANGED <<activeSceneIndex, autoGenCount, coolDown, audioVars, runVars>>

\* lines 559-576 after a call returned true or the throttle timer fired;
\* generating: what isGenerating is when the loop is left, which line 576
\* does not write
ContinueLoop(p, r, generating) ==
  IF LoopContinues(r.count, r.N, stopAutoGeneration)
  THEN IssueRequest(p, r) /\ UNCHANGED <<isAutoGenerating, runLog>>
  ELSE /\ Return(p, r, IF stopAutoGeneration THEN "stopped" ELSE "completed")
       /\ isGenerating' = generating
       /\ UNCHANGED <<now, error, isApiKeyError>>

\* line 482: [...prev, newScene]
PrependScene(prev, newScene) == <<newScene>> \o prev
AppendScene(prev, newScene) == Append(prev, newScene)

\* line 483: setActiveSceneIndex(updated.length - 1)
IndexOfFirst(updated) == 0
IndexOfAppended(updated) == Len(updated) - 1

\* generateVeoVideo resolved: lines 472-507, finally, then lines 563-575
GenerationSucceeds(p) ==
  /\ proc[p].pc = "request"
  /\ LET r == proc[p]
         newScene == NewScene(now, r.req, r.dur)
         r2 == [r EXCEPT !.count = r.count + 1, !.appended = r.appended + 1]
         d == ThrottleDelay(r2.count, r2.N, stopAutoGeneration)
     IN  /\ timeline' = AppendScene(timeline, newScene)
         /\ activeSceneIndex' = IndexOfAppended(timeline')
         /\ narrations' = IF r.autoAudio
                          THEN narrations \cup
                                 {[pc |-> "script", id |-> newScene.id,
                                   url |-> r.req, audio |-> NoUrl]}
                          ELSE narrations
         /\ IF ~r.auto
            THEN /\ Return(p, r2, "completed")
                 /\ isGenerating' = FALSE
                 /\ UNCHANGED <<now, error, isApiKeyError>>
            ELSE IF d > 0
            THEN /\ proc' = [proc EXCEPT ![p] =
                               [r2 EXCEPT !.pc = "throttle", !.delay = d]]
                 /\ isGenerating' = FALSE
                 /\ UNCHANGED <<now, error, isApiKeyError, isAutoGenerating,
                                runLog>>
            ELSE ContinueLoop(p, r2, FALSE)   \* finally (547-549)
  \* ChatBot.tsx:618: the url of the clip is a new object url
  /\ liveUrls' = [liveUrls EXCEPT !.video = @ \cup {proc[p].req}]
  /\ UNCHANGED <<autoGenCount, stopAutoGeneration, coolDown,
                 isGeneratingAudio, nextAudio, vo, sceneDuration,
                 selectedSceneIds, lastEnded, helperVars, modeVars>>
  /\ PlaybackEffect

\* generateVeoVideo rejected with message msg: catch (509-546), finally,
\* then line 563
GenerationFails(p, msg) ==
  /\ proc[p].pc = "request"
  /\ LET r == proc[p]
     IN  /\ error' = VideoErrorMessage(msg)
         /\ coolDown' = IF IsVideoQuotaError(msg) THEN VideoCoolDown ELSE coolDown
         /\ isApiKeyError' = ApiKeyErrorAfterCatch(isApiKeyError, msg)
         /\ timeline' = TimelineAfterFailure(timeline, r)
         /\ isGenerating' = FALSE
         /\ UNCHANGED now
         /\ IF ~r.auto \/ BreaksOnFailure(FALSE)
            THEN Return(p, r, "failed")
            ELSE \* without the break: count++, throttle, next iteration
                 /\ proc' = [proc EXCEPT ![p] =
                               [r EXCEPT !.pc = "throttle", !.count = @ + 1,
                                         !.delay = ThrottleMs]]
                 /\ UNCHANGED <<isAutoGenerating, runLog>>
  /\ UNCHANGED <<activeSceneIndex, autoGenCount, stopAutoGeneration,
                 audioVars, runVars>>

\* the setTimeout of line 571 fires
ThrottleElapsed(p) ==
  /\ proc[p].pc = "throttle"
  /\ ContinueLoop(p, proc[p], isGenerating)
  /\ UNCHANGED <<timeline, activeSceneIndex, autoGenCount,
                 stopAutoGeneration, coolDown, audioVars, runVars>>

\* handleStopAuto (580-583); the stop button replaces the start button
\* while isGenerating (949-950)
HandleStopAuto ==
  /\ isGenerating
  /\ stopAutoGeneration' = TRUE
  /\ isAutoGenerating' = FALSE
  /\ proc' = [p \in Procs |->
                IF proc[p].pc # "idle" /\ proc[p].auto
                THEN [proc[p] EXCEPT !.stopSeen = TRUE] ELSE proc[p]]
  /\ UNCHANGED <<timeline, activeSceneIndex, isGenerating, autoGenCount,
                 coolDown, error, now, runLog, audioVars, otherVars>>

\* Auto-generation mode is switched on (spec 4.3, "Configuration"); the
\* source has the flag and its two resets but no call that sets it.
EnableAutoGeneration ==
  /\ ~isAutoGenerating
  /\ isAutoGenerating' = TRUE
  /\ UNCHANGED <<timeline, activeSceneIndex, isGenerating, autoGenCount,
                 stopAutoGeneration, coolDown, error, now, proc, runLog,
                 audioVars, otherVars>>

\* the count input, rendered while isAutoGenerating (811-823)
CountInputs == {0, 2}
SetAutoGenCount(v) ==
  /\ isAutoGenerating
  /\ autoGenCount' = Max(MinAutoGenCount, Min(MaxAutoGenCount, v))
  /\ UNCHANGED <<timeline, activeSceneIndex, isGenerating, isAutoGenerating,
                 stopAutoGeneration, coolDown, error, now, proc, runLog,
                 audioVars, otherVars>>

\* the interval of the cooldown effect (233-240)
CoolDownTick ==
  /\ coolDown > 0
  /\ coolDown' = Max(0, coolDown - 1)
  /\ UNCHANGED <<timeline, activeSceneIndex, error, genVars, audioVars,
                 otherVars>>

\* handleSelectKey (200-210) once openSelectKey has resolved; its button is
\* rendered in the error panel while error && isApiKeyError (976, 987-994)
HandleSelectKey ==
  /\ error # NoError
  /\ isApiKeyError
  /\ error' = NoError
  /\ isApiKeyError' = FALSE
  /\ coolDown' = 0
  /\ UNCHANGED <<timeline, activeSceneIndex, genVars, audioVars, runVars>>

\* time passes
ClockTick ==
  /\ now < MaxClock
  /\ now' = now + 1
  /\ UNCHANGED <<timeline, activeSceneIndex, isGenerating, isAutoGenerating,
                 autoGenCount, stopAutoGeneration, coolDown, error, proc,
                 runLog, audioVars, otherVars>>

\* line 215: setSelectedSceneIds(new Set())
SelectionKept(selected) == selected
SelectionAfterClear(selected) == {}

\* the object urls of the scenes of a timeline
UrlsOf(tl) ==
  [video  |-> {tl[i].url : i \in 1..Len(tl)},
   audio  |-> {tl[i].audioUrl : i \in 1..Len(tl)} \ {NoUrl},
   merged |-> {tl[i].mergedUrl : i \in 1..Len(tl)} \ {NoMerge}]

\* the live object urls after clearTimeline dropped the scenes of tl: the
\* handler (212-220) calls no URL.revokeObjectURL, and neither does any
\* other code of the component
UrlsAfterClear(live, tl) == live

\* clearTimeline (212-220); the button is disabled on an empty timeline (1062)
ClearTimeline(confirmed) ==
  /\ Len(timeline) > 0
  /\ UNCHANGED <<coolDown, genVars, audioVars, sceneDuration, lastEnded,
                 helperVars, isApiKeyError, modeVars>>
  /\ IF confirmed
     THEN /\ timeline' = <<>>
          /\ selectedSceneIds' = SelectionAfterClear(selectedSceneIds)
          /\ liveUrls' = UrlsAfterClear(liveUrls, timeline)
          /\ activeSceneIndex' = 0
          /\ error' = NoError
          /\ PlaybackEffect
     ELSE UNCHANGED <<timeline, selectedSceneIds, liveUrls, activeSceneIndex,
                      error, effectVars>>

\* onClick of a scene card (1086-1091)
SceneCardClick(idx) ==
  /\ idx \in 0..(Len(timeline) - 1)
  /\ isPlayingAll' = FALSE
  /\ activeSceneIndex' = idx
  /\ activePlayer' = "A"
  /\ isTransitioning' = FALSE
  /\ UNCHANGED <<timeline, coolDown, error, genVars, audioVars, sceneDuration, sideVars,
                 isLooping, transitionType, transTimer>>
  /\ PlaybackEffectIfChanged

\* the updater of lines 224-229: a copy of the set with id deleted if it
\* has it and added if not
AddedOnly(prev, id) == prev \cup {id}
Toggled(prev, id) ==
  IF id \in prev THEN prev \ {id} ELSE prev \cup {id}

\* toggleSceneSelection (222-230), from the checkbox of a scene card
\* (1101-1111)
ToggleSceneSelection(id) ==
  /\ \E i \in 1..Len(timeline) : timeline[i].id = id
  /\ selectedSceneIds' = Toggled(selectedSceneIds, id)
  /\ UNCHANGED <<timeline, activeSceneIndex, coolDown, error, genVars,
                 audioVars, sceneDuration, liveUrls, lastEnded, helperVars,
                 isApiKeyError, modeVars, effectVars>>

\* setTimeline(prev => prev.map((s, i) => i === sceneIndex ? f(s) : s))
PatchByIndex(tl, sceneIndex, patch) ==
  [i \in 1..Len(tl) |->
     IF i - 1 = sceneIndex THEN Spread(tl[i], patch) ELSE tl[i]]

\* setTimeline(prev => prev.map(s => s.id === id ? f(s) : s))
PatchById(tl, id, patch) ==
  [i \in 1..Len(tl) |-> IF tl[i].id = id THEN Spread(tl[i], patch) ELSE tl[i]]

\* ------------------------------------------------------------------------
\* Playback handlers and timers
\* ------------------------------------------------------------------------

\* handlePlayAll (587-593); the button is disabled on an empty timeline
\* (1071)
HandlePlayAll ==
  /\ Len(timeline) > 0
  /\ isPlayingAll' = TRUE
  /\ activeSceneIndex' = 0
  /\ activePlayer' = "A"
  /\ isTransitioning' = FALSE
  /\ UNCHANGED <<timeline, coolDown, error, genVars, audioVars, sceneDuration, sideVars,
                 isLooping, transitionType, transTimer>>
  /\ PlaybackEffectIfChanged

\* lines 600-601: the transition handleSceneEnd uses for the advance from
\* index to index + 1
TransitionOfSource(tl, index) == tl[index + 1].transition
TransitionInto(tl, index) == tl[(index + 1) + 1].transition

\* line 602: whether the advance opens a transition window
StartsWindowNever(transition) == FALSE
StartsWindow(transition) == transition # "cut"

\* line 614: whether playback goes on after the last scene
WrapsAlways(looping) == TRUE
WrapsAtEnd(looping) == looping

\* the setTimeout of line 677 fires: handleSceneEnd (596-621) with
\* isPlayingAll true
DurationTimerFires ==
  /\ playTimer = 0
  /\ UNCHANGED <<timeline, coolDown, error, genVars, audioVars, sceneDuration, sideVars,
                 isLooping>>
  /\ IF activeSceneIndex < Len(timeline) - 1
     THEN LET nextIndex == activeSceneIndex + 1
              transition == TransitionInto(timeline, activeSceneIndex)
          IN  /\ transitionType' = transition
              /\ UNCHANGED isPlayingAll
              /\ IF StartsWindow(transition)
                 THEN /\ isTransitioning' = TRUE
                      /\ transTimer' = [ms |-> TransitionMs,
                                        nextIndex |-> nextIndex]
                      /\ UNCHANGED <<activeSceneIndex, activePlayer>>
                 ELSE /\ activeSceneIndex' = nextIndex
                      /\ activePlayer' = Flip(activePlayer)
                      /\ UNCHANGED <<isTransitioning, transTimer>>
     ELSE IF WrapsAtEnd(isLooping)
          THEN /\ activeSceneIndex' = 0
               /\ activePlayer' = Flip(activePlayer)
               /\ UNCHANGED <<isPlayingAll, isTransitioning, transitionType,
                              transTimer>>
          ELSE /\ isPlayingAll' = FALSE
               /\ isTransitioning' = FALSE
               /\ UNCHANGED <<activeSceneIndex, activePlayer, transitionType,
                              transTimer>>
  /\ IF <<activeSceneIndex', activePlayer', isPlayingAll'>>
          # <<activeSceneIndex, activePlayer, isPlayingAll>>
     THEN PlaybackEffect
     ELSE \* the timer has fired and the effect does not run again
          /\ playTimer' = NoTimer
          /\ UNCHANGED <<srcA, srcB, audioSrc, audioPlaying>>

\* the setTimeout of line 604 fires (605-607); nothing clears this timer
TransitionTimerFires ==
  /\ transTimer.ms = 0
  /\ activeSceneIndex' = transTimer.nextIndex
  /\ activePlayer' = Flip(activePlayer)
  /\ isTransitioning' = FALSE
  /\ transTimer' = NoTransTimer
  /\ UNCHANGED <<timeline, coolDown, error, genVars, audioVars, sceneDuration, sideVars,
                 isPlayingAll, isLooping, transitionType>>
  /\ PlaybackEffectIfChanged

\* the remaining times of the pending timers of the playback side
PendingTimers == {ms \in {playTimer, transTimer.ms} : ms # NoTimer}
\* the time until the timer that is due first fires
NextDue == CHOOSE ms \in PendingTimers : \A other \in PendingTimers : ms <= other

\* d ms pass while a timer of the playback side is pending and none is due
\* earlier
Tick(d) ==
  /\ PendingTimers # {}
  /\ d > 0 /\ \A ms \in PendingTimers : d <= ms
  /\ playTimer' = IF playTimer # NoTimer THEN playTimer - d ELSE playTimer
  /\ transTimer' = IF transTimer.ms # NoTimer
                   THEN [transTimer EXCEPT !.ms = @ - d] ELSE transTimer
  /\ UNCHANGED <<timeline, activeSceneIndex, coolDown, error, genVars,
                 audioVars, sceneDuration, sideVars, isPlayingAll, isLooping,
                 activePlayer, isTransitioning, transitionType, srcA, srcB,
                 audioSrc, audioPlaying>>

\* Looping is switched (spec 4.5, "a global loop flag"); the source has the
\* flag and reads it but has no call of setIsLooping.
ToggleLooping ==
  /\ isLooping' = ~isLooping
  /\ UNCHANGED <<timeline, activeSceneIndex, coolDown, error, genVars,
                 audioVars, sceneDuration, sideVars, isPlayingAll, activePlayer,
                 isTransitioning, transitionType, transTimer>>
  /\ PlaybackEffect

\* onEnded of the two video elements (1013, 1019), then handleSceneEnd
\* with isPlayingAll false (622-625): the buffer whose play() is called,
\* "none" if none is
PlayedAlways(playingAll, looping, active) == active
PlayedOnEnded(playingAll, looping, active) ==
  IF ~playingAll /\ looping THEN active ELSE "none"

\* the video element of buffer player fires ended
PlayerOnEnded(player) ==
  /\ (IF player = "A" THEN srcA ELSE srcB) # NoMedia
  /\ lastEnded' = [player |-> player,
                   played |-> PlayedOnEnded(isPlayingAll, isLooping,
                                            activePlayer)]
  /\ UNCHANGED <<timeline, activeSceneIndex, coolDown, error, genVars,
                 audioVars, sceneDuration, selectedSceneIds, liveUrls,
                 helperVars, isApiKeyError, modeVars, effectVars>>

\* the audio element reaches the end of its clip
AudioEnds ==
  /\ audioPlaying
  /\ audioPlaying' = FALSE
  /\ UNCHANGED <<timeline, activeSceneIndex, coolDown, error, genVars,
                 audioVars, sceneDuration, sideVars, modeVars, playTimer, srcA, srcB,
                 audioSrc>>

\* ------------------------------------------------------------------------
\* Scene settings: handleDurationChange, toggleTransition
\* ------------------------------------------------------------------------

\* the value of the range input (881-889, min 1, max 15, step 1) after the
\* user has asked it for s
DurationInputs == {0, 2, 3, 20}
RangeInputUnclamped(s) == s
RangeInputValue(s) == Min(MaxSceneDuration, Max(MinSceneDuration, s))

\* handleDurationChange (244-252)
HandleDurationChange(s) ==
  LET val == RangeInputValue(s)
      SetDuration == [duration |-> val]
  IN  /\ sceneDuration' = val
      /\ UNCHANGED <<activeSceneIndex, coolDown, error, genVars, audioVars,
                     sideVars, modeVars>>
      /\ IF Len(timeline) > 0
         THEN /\ timeline' = PatchByIndex(timeline, activeSceneIndex, SetDuration)
              /\ PlaybackEffect
         ELSE UNCHANGED <<timeline, effectVars>>

\* lines 687-691
TransitionTypes == <<"cut", "fade", "slide">>
IndexOfTransition(t) ==
  IF \E k \in 1..Len(TransitionTypes) : TransitionTypes[k] = t
  THEN (CHOOSE k \in 1..Len(TransitionTypes) : TransitionTypes[k] = t) - 1
  ELSE -1
NextTransitionTwoWay(t) == IF t = "cut" THEN "fade" ELSE "cut"
NextTransition(t) ==
  TransitionTypes[((IndexOfTransition(t) + 1) % Len(TransitionTypes)) + 1]

\* toggleTransition(index) (686-696); the button between card idx and card
\* idx + 1 calls it with idx + 1 (1133-1137)
ToggleTransition(idx) ==
  /\ idx \in 0..(Len(timeline) - 2)
  /\ LET index == idx + 1
         Cycle == [transition |-> NextTransition(timeline[index + 1].transition)]
     IN  timeline' = PatchByIndex(timeline, index, Cycle)
  /\ UNCHANGED <<activeSceneIndex, coolDown, error, genVars, audioVars,
                 sceneDuration, sideVars, modeVars>>
  /\ PlaybackEffect

\* ------------------------------------------------------------------------
\* Manual voiceover: handleGenerateVoiceover (374-422)
\* ------------------------------------------------------------------------

AudioFailure(msg) ==
  /\ error' = "Audio generation failed"
  /\ coolDown' = IF IsAudioQuotaError(msg) THEN AudioCoolDown ELSE coolDown

\* The click of one of the two buttons of the audio panel (915-943), up to
\* the first await.  blank: voiceText is all white space.
HandleGenerateVoiceover(useAutoScript, blank) ==
  /\ Len(timeline) > 0            \* the audio panel is rendered (915)
  /\ ~isGeneratingAudio           \* disabled (932, 939)
  /\ coolDown = 0
  /\ vo.pc = "idle"
  /\ LET snap == SceneAt(timeline, activeSceneIndex)
         v == [IdleVo EXCEPT !.sceneIndex = activeSceneIndex, !.snap = snap]
     IN  IF useAutoScript
         THEN IF snap = Undefined
              THEN \* currentScene.prompt throws; catch and finally run
                   /\ AudioFailure({})
                   /\ UNCHANGED <<vo, isGeneratingAudio>>
              ELSE /\ vo' = [v EXCEPT !.pc = "script"]
                   /\ isGeneratingAudio' = TRUE
                   /\ UNCHANGED <<error, coolDown>>
         ELSE IF blank
              THEN UNCHANGED <<vo, isGeneratingAudio, error, coolDown>>  \* 392-395
              ELSE /\ vo' = [v EXCEPT !.pc = "speech"]
                   /\ isGeneratingAudio' = TRUE
                   /\ UNCHANGED <<error, coolDown>>
  /\ UNCHANGED <<timeline, activeSceneIndex, nextAudio, narrations, genVars,
                 otherVars>>

\* generateCreativeScript resolved (388); its text is never blank
VoiceoverScriptResolves ==
  /\ vo.pc = "script"
  /\ vo' = [vo EXCEPT !.pc = "speech"]
  /\ UNCHANGED <<timeline, activeSceneIndex, coolDown, error,
                 isGeneratingAudio, nextAudio, narrations, genVars, otherVars>>

\* generateCreativeScript or generateSpeech rejected: catch (412-418), finally
VoiceoverGenerationFails(msg) ==
  /\ vo.pc \in {"script", "speech"}
  /\ AudioFailure(msg)
  /\ vo' = IdleVo
  /\ isGeneratingAudio' = FALSE
  /\ UNCHANGED <<timeline, activeSceneIndex, nextAudio, narrations, genVars,
                 otherVars>>

\* generateSpeech resolved: lines 397-405, up to the await of the merge
VoiceoverSpeechResolves ==
  /\ vo.pc = "speech"
  /\ nextAudio <= MaxAudio
  /\ nextAudio' = nextAudio + 1
  /\ LET a == nextAudio
         patched == PatchByIndex(timeline, vo.sceneIndex, PatchAudioWith(a))
     IN  IF vo.snap = Undefined
         THEN \* currentVideo.url throws inside the inner try: line 409 runs
              /\ timeline' = PatchByIndex(patched, vo.sceneIndex, PatchMergeFailed)
              /\ vo' = IdleVo
              /\ isGeneratingAudio' = FALSE
         ELSE /\ timeline' = patched
              /\ vo' = [vo EXCEPT !.pc = "merge", !.audio = a]
              /\ UNCHANGED isGeneratingAudio
  \* ChatBot.tsx:499: the url of the speech is a new object url
  /\ liveUrls' = [liveUrls EXCEPT !.audio = @ \cup {nextAudio}]
  /\ UNCHANGED <<activeSceneIndex, coolDown, error, narrations, genVars,
                 sceneDuration, keptVars,
                 modeVars>>
  /\ PlaybackEffect

\* mergeVideoAudio(currentVideo.url, audioUrl) resolved: line 406, finally
VoiceoverMergeResolves ==
  /\ vo.pc = "merge"
  /\ timeline' = PatchByIndex(timeline, vo.sceneIndex,
                            PatchMergedWith(<<vo.snap.url, vo.audio>>))
  /\ vo' = IdleVo
  /\ isGeneratingAudio' = FALSE
  \* line 85: the merged asset is a new object url
  /\ liveUrls' = [liveUrls EXCEPT !.merged = @ \cup {<<vo.snap.url, vo.audio>>}]
  /\ UNCHANGED <<activeSceneIndex, coolDown, error, nextAudio, narrations,
                 genVars, sceneDuration, keptVars,
                 modeVars>>
  /\ PlaybackEffect

\* mergeVideoAudio rejected: lines 407-410, finally
VoiceoverMergeRejects ==
  /\ vo.pc = "merge"
  /\ timeline' = PatchByIndex(timeline, vo.sceneIndex, PatchMergeFailed)
  /\ vo' = IdleVo
  /\ isGeneratingAudio' = FALSE
  /\ UNCHANGED <<activeSceneIndex, coolDown, error, nextAudio, narrations,
                 genVars, sceneDuration, sideVars,
                 modeVars>>
  /\ PlaybackEffect

\* ------------------------------------------------------------------------
\* Auto-narration: the detached task of executeGeneration (487-505)
\* ------------------------------------------------------------------------

\* generateCreativeScript resolved (490)
NarrationScriptResolves(t) ==
  /\ t \in narrations /\ t.pc = "script"
  /\ narrations' = (narrations \ {t}) \cup {[t EXCEPT !.pc = "speech"]}
  /\ UNCHANGED <<timeline, activeSceneIndex, coolDown, error,
                 isGeneratingAudio, nextAudio, vo, genVars, otherVars>>

\* generateSpeech resolved: lines 491-497, up to the await of the merge
NarrationSpeechResolves(t) ==
  /\ t \in narrations /\ t.pc = "speech"
  /\ nextAudio <= MaxAudio
  /\ nextAudio' = nextAudio + 1
  /\ timeline' = PatchById(timeline, t.id, PatchAudioWith(nextAudio))
  /\ narrations' = (narrations \ {t}) \cup
                     {[t EXCEPT !.pc = "merge", !.audio = nextAudio]}
  /\ liveUrls' = [liveUrls EXCEPT !.audio = @ \cup {nextAudio}]
  /\ UNCHANGED <<activeSceneIndex, coolDown, error, isGeneratingAudio, vo,
                 genVars, sceneDuration, keptVars,
                 modeVars>>
  /\ PlaybackEffect

\* mergeVideoAudio(result.url, speechUrl) resolved: line 499
NarrationMergeResolves(t) ==
  /\ t \in narrations /\ t.pc = "merge"
  /\ timeline' = PatchById(timeline, t.id, PatchMergedWith(<<t.url, t.audio>>))
  /\ narrations' = narrations \ {t}
  /\ liveUrls' = [liveUrls EXCEPT !.merged = @ \cup {<<t.url, t.audio>>}]
  /\ UNCHANGED <<activeSceneIndex, coolDown, error, isGeneratingAudio,
                 nextAudio, vo, genVars, sceneDuration, keptVars,
                 modeVars>>
  /\ PlaybackEffect

\* the error shown after the catch of the task (500-503), which logs a
\* warning and calls no setError
ErrorOfNarration(err) == "Audio generation failed."
ErrorAfterNarrationCatch(err) == err

\* any of the three awaits rejected: catch (500-503)
NarrationFails(t) ==
  /\ t \in narrations
  /\ timeline' = PatchById(timeline, t.id, PatchMergeFailed)
  /\ narrations' = narrations \ {t}
  /\ error' = ErrorAfterNarrationCatch(error)
  /\ UNCHANGED <<activeSceneIndex, coolDown, isGeneratingAudio,
                 nextAudio, vo, genVars, sceneDuration, sideVars,
                 modeVars>>
  /\ PlaybackEffect

\* ------------------------------------------------------------------------
\* retryOperation (src/components/ChatBot.tsx:231-275)
\* ------------------------------------------------------------------------

\* the state of the VideoGenerator component, which the helper routines
\* neither read nor write
componentVars == <<timeline, activeSceneIndex, coolDown, error, genVars,
                   audioVars, sceneDuration, selectedSceneIds, liveUrls,
                   lastEnded, isApiKeyError, modeVars, effectVars>>

\* An error thrown by the wrapped operation.  msg: the marker substrings its
\* message contains ({} also for an error without message); status, code:
\* its fields, "none" when absent; nested: whether JSON.stringify(error)
\* contains RESOURCE_EXHAUSTED outside message and status.  A call that
\* threw records the error thrown and whether it is the new Error of line
\* 256, which wraps the one of the operation.
RetryMessages ==
  {{}, {"503"}, {"RESOURCE_EXHAUSTED"}, {"API key"}, {"billing"},
   {"PERMISSION_DENIED"}, {"503", "billing"}}
RetryStatuses == {"none", "429", "403", "401", "503", "500", "RESOURCE_EXHAUSTED"}
RetryErrors ==
  [msg : RetryMessages, status : RetryStatuses, code : {"none", "429"},
   nested : BOOLEAN]

\* lines 237-242
IsResourceExhausted(e) ==
  \/ "RESOURCE_EXHAUSTED" \in e.msg
  \/ e.status = "RESOURCE_EXHAUSTED"
  \/ e.status = "429"
  \/ e.code = "429"
  \/ e.nested

\* lines 244-247
IsAuthError(e) ==
  \/ e.status = "403" \/ e.status = "401"
  \/ "API key" \in e.msg
  \/ "billing" \in e.msg
  \/ "PERMISSION_DENIED" \in e.msg

\* line 264
IsOverloadAlways(e) == TRUE
IsOverload(e) == "503" \in e.msg \/ e.status = "503"

\* lines 253-258: the error thrown for a quota error whose message does not
\* name its type
UnmarkedQuotaError(e) == e
MarkedQuotaError(e) ==
  [msg |-> e.msg \cup {"RESOURCE_EXHAUSTED"}, status |-> "none",
   code |-> "none",
   nested |-> e.nested \/ e.status = "RESOURCE_EXHAUSTED"]  \* originalError

\* line 270: the delay of the next retry
NextDelay(delay) == delay * 2

\* the first delays of the callers: the default (278, 347, 411, 437) and
\* the one generateVeoVideo passes (621)
RetryDelays == {DefaultRetryDelay, VeoRetryDelay}

\* retryOperation(operation, 3, delay) is called, with the default retries
\* (231), which generateVeoVideo passes as well (621); the operation is
\* started
RetryOperationCall(delay) ==
  /\ retryCall.pc \in {"idle", "returned", "threw"}
  /\ retryCall' = [pc |-> "attempt", retries |-> DefaultRetries,
                   delay |-> delay, first |-> delay, attempts |-> 1,
                   waits |-> <<>>]
  /\ UNCHANGED <<componentVars, merge>>

\* line 233: the operation resolves
OperationResolves ==
  /\ retryCall.pc = "attempt"
  /\ retryCall' = [retryCall EXCEPT !.pc = "returned"]
  /\ UNCHANGED <<componentVars, merge>>

\* the operation rejects with e: the catch block (234-274)
OperationRejects(e) ==
  /\ retryCall.pc = "attempt"
  /\ retryCall' =
       IF IsAuthError(e) \/ IsResourceExhausted(e)
       THEN IF IsResourceExhausted(e) /\ "RESOURCE_EXHAUSTED" \notin e.msg
            THEN [pc |-> "threw", thrown |-> MarkedQuotaError(e),
                  wrapped |-> TRUE,
                  attempts |-> retryCall.attempts, waits |-> retryCall.waits]
            ELSE [pc |-> "threw", thrown |-> e, wrapped |-> FALSE,
                  attempts |-> retryCall.attempts, waits |-> retryCall.waits]
       ELSE IF retryCall.retries > 0 /\ IsOverload(e)
       THEN [retryCall EXCEPT !.pc = "wait"]
       ELSE [pc |-> "threw", thrown |-> e, wrapped |-> FALSE,
             attempts |-> retryCall.attempts, waits |-> retryCall.waits]
  /\ UNCHANGED <<componentVars, merge>>

\* lines 268-270: wait(delay) is over; the recursive call starts the
\* operation again
RetryWaitElapses ==
  /\ retryCall.pc = "wait"
  /\ retryCall' = [retryCall EXCEPT !.pc = "attempt",
                                    !.retries = @ - 1,
                                    !.delay = NextDelay(@),
                                    !.attempts = @ + 1,
                                    !.waits = Append(@, retryCall.delay)]
  /\ UNCHANGED <<componentVars, merge>>

\* ------------------------------------------------------------------------
\* mergeVideoAudio (part_000:37-127)
\* ------------------------------------------------------------------------
\* The record of a call.  settled: the state of the promise; ctxOpen: the
\* AudioContext of line 45 is not closed; videoKept: video.remove() has not
\* been called; loading: how far the current load of the video element is
\* ("metadata": nothing fired yet, "data": loadedmetadata fired, "ready":
\* canplaythrough fired, "failed": error fired); loads: the calls of
\* video.load(); handlers: the runs of onloadedmetadata that wait for the
\* audio; canplay: video.oncanplaythrough is set; recorders: the state of
\* the MediaRecorder of each run that got as far as line 78, the last one
\* being the one the handlers of lines 92 and 115 refer to; videoPlaying,
\* audioStarted: video.play() succeeded, source.start(0) was called.

\* the promise after reject(...): settling twice has no effect
Rejected(m) == [m EXCEPT !.settled = IF @ = "pending" THEN "rejected" ELSE @]
\* the promise after resolve(...)
Resolved(m) == [m EXCEPT !.settled = IF @ = "pending" THEN "resolved" ELSE @]

\* lines 40-50: the elements are created and the video starts to load
MergeVideoAudioCall ==
  /\ merge.pc = "idle"
  /\ merge' = [pc |-> "run", settled |-> "pending", ctxOpen |-> TRUE,
               videoKept |-> TRUE, loading |-> "metadata", loads |-> 0,
               handlers |-> 0, canplay |-> FALSE, recorders |-> <<>>,
               videoPlaying |-> FALSE, audioStarted |-> FALSE]
  /\ UNCHANGED <<componentVars, retryCall>>

\* video.onerror (50)
VideoOnError ==
  /\ merge.pc = "run"
  /\ merge.loading \in {"metadata", "data"}
  /\ merge' = Rejected([merge EXCEPT !.loading = "failed"])
  /\ UNCHANGED <<componentVars, retryCall>>

\* whether oncanplaythrough is set once loadedmetadata has fired: the
\* handler of line 53 sets it only after its awaits (92)
CanPlaySetAtMetadata(canplay) == TRUE
CanPlayAtMetadata(canplay) == canplay

\* video.onloadedmetadata (53) up to the await of line 56; the event fires
\* for the load started by line 48 and again for every video.load()
VideoOnLoadedMetadata ==
  /\ merge.pc = "run"
  /\ merge.loading = "metadata"
  /\ merge' = [merge EXCEPT !.loading = "data",
                            !.handlers = @ + 1,
                            !.canplay = CanPlayAtMetadata(@)]
  /\ UNCHANGED <<componentVars, retryCall>>

\* fetch, arrayBuffer, decodeAudioData, captureStream or the MediaRecorder
\* constructor throws in a run of the handler: catch (122-124)
AudioSetupFails ==
  /\ merge.pc = "run"
  /\ merge.handlers > 0
  /\ merge' = Rejected([merge EXCEPT !.handlers = @ - 1])
  /\ UNCHANGED <<componentVars, retryCall>>

\* a run of the handler gets its decoded audio: lines 60-120, which make a
\* new source and recorder, set oncanplaythrough and onended, and call
\* video.load(), which resets the element
AudioDecoded ==
  /\ merge.pc = "run"
  /\ merge.handlers > 0
  /\ merge.loads < MaxLoads
  /\ merge' = [merge EXCEPT !.handlers = @ - 1,
                            !.recorders = Append(@, "inactive"),
                            !.canplay = TRUE,
                            !.loading = "metadata",
                            !.loads = @ + 1,
                            !.videoPlaying = FALSE]
  /\ UNCHANGED <<componentVars, retryCall>>

\* the recorder the handlers refer to goes to state s
WithLastRecorder(recorders, s) ==
  IF Len(recorders) = 0 THEN recorders
  ELSE [recorders EXCEPT ![Len(recorders)] = s]

\* canplaythrough fires; if video.oncanplaythrough is set it runs (92-112):
\* recorder.start(), then video.play() and source.start(0); playOk: the
\* promise of video.play() resolves
VideoOnCanPlayThrough(playOk) ==
  /\ merge.pc = "run"
  /\ merge.loading = "data"
  /\ merge' =
       IF ~merge.canplay
       THEN [merge EXCEPT !.loading = "ready"]
       ELSE IF playOk
       THEN [merge EXCEPT !.loading = "ready",
                          !.canplay = FALSE,
                          !.recorders = WithLastRecorder(@, "recording"),
                          !.videoPlaying = TRUE,
                          !.audioStarted = TRUE]
       ELSE \* catch (108-111): reject(err); recorder.stop()
            Rejected([merge EXCEPT !.loading = "ready",
                                   !.canplay = FALSE,
                                   !.recorders = WithLastRecorder(@, "stopping"),
                                   !.audioStarted = TRUE])
  /\ UNCHANGED <<componentVars, retryCall>>

\* video.onended (115-117)
VideoOnEnded ==
  /\ merge.pc = "run"
  /\ merge.videoPlaying
  /\ merge' = [merge EXCEPT
                 !.videoPlaying = FALSE,
                 !.recorders =
                    IF Len(@) > 0 /\ @[Len(@)] = "recording"
                    THEN WithLastRecorder(@, "stopping") ELSE @]
  /\ UNCHANGED <<componentVars, retryCall>>

\* recorder.onstop (83-89) of recorder k: resolve, video.remove(),
\* audioCtx.close()
RecorderOnStop(k) ==
  /\ merge.pc = "run"
  /\ k \in 1..Len(merge.recorders)
  /\ merge.recorders[k] = "stopping"
  /\ merge' = Resolved([merge EXCEPT !.recorders[k] = "stopped",
                                     !.videoKept = FALSE,
                                     !.ctxOpen = FALSE])
  /\ UNCHANGED <<componentVars, retryCall>>

\* ------------------------------------------------------------------------
Next ==
  \/ \E inputOk \in BOOLEAN, autoAudio \in BOOLEAN :
       HandleStartGeneration(inputOk, autoAudio)
  \/ \E p \in Procs : GenerationSucceeds(p)
  \/ \E p \in Procs, msg \in VideoErrors : GenerationFails(p, msg)
  \/ \E p \in Procs : ThrottleElapsed(p)
  \/ HandleStopAuto
  \/ EnableAutoGeneration
  \/ \E v \in CountInputs : SetAutoGenCount(v)
  \/ CoolDownTick
  \/ HandleSelectKey
  \/ ClockTick
  \/ \E confirmed \in BOOLEAN : ClearTimeline(confirmed)
  \/ \E idx \in 0..(MaxClock - 1) : SceneCardClick(idx)
  \/ \E useAutoScript \in BOOLEAN, blank \in BOOLEAN :
       HandleGenerateVoiceover(useAutoScript, blank)
  \/ VoiceoverScriptResolves
  \/ \E msg \in AudioErrors : VoiceoverGenerationFails(msg)
  \/ VoiceoverSpeechResolves
  \/ VoiceoverMergeResolves
  \/ VoiceoverMergeRejects
  \/ \E t \in narrations : NarrationScriptResolves(t)
  \/ \E t \in narrations : NarrationSpeechResolves(t)
  \/ \E t \in narrations : NarrationMergeResolves(t)
  \/ \E t \in narrations : NarrationFails(t)
  \/ HandlePlayAll
  \/ DurationTimerFires
  \/ TransitionTimerFires
  \/ Tick(TickMs)
  \/ ToggleLooping
  \/ AudioEnds
  \/ \E s \in DurationInputs : HandleDurationChange(s)
  \/ \E idx \in 0..(MaxClock - 2) : ToggleTransition(idx)
  \/ \E id \in 1..MaxClock : ToggleSceneSelection(id)
  \/ \E delay \in RetryDelays : RetryOperationCall(delay)
  \/ OperationResolves
  \/ \E e \in RetryErrors : OperationRejects(e)
  \/ RetryWaitElapses
  \/ MergeVideoAudioCall
  \/ VideoOnError
  \/ VideoOnLoadedMetadata
  \/ AudioSetupFails
  \/ AudioDecoded
  \/ \E playOk \in BOOLEAN : VideoOnCanPlayThrough(playOk)
  \/ VideoOnEnded
  \/ \E k \in 1..(MaxLoads + 1) : RecorderOnStop(k)
  \/ \E player \in {"A", "B"} : PlayerOnEnded(player)

Spec == Init /\ [][Next]_vars

\* The generation side alone: the start, stop and clear buttons and the
\* loop, with the isAutoAudio checkbox left unchecked and the clock of the
\* cooldown stopped (a quota error refuses every later start).  The actions
\* left out write coolDown, error, timeline's audio fields, activeSceneIndex
\* and audioVars only; of these the actions kept here read coolDown alone,
\* and only to refuse a start, so what a start does after a cooldown has
\* elapsed is what it does here after an error that sets no cooldown.
NextGen ==
  \/ \E inputOk \in BOOLEAN : HandleStartGeneration(inputOk, FALSE)
  \/ \E p \in Procs : GenerationSucceeds(p)
  \/ \E p \in Procs, msg \in VideoErrors : GenerationFails(p, msg)
  \/ \E p \in Procs : ThrottleElapsed(p)
  \/ HandleStopAuto
  \/ EnableAutoGeneration
  \/ \E v \in CountInputs : SetAutoGenCount(v)
  \/ ClockTick
  \/ \E confirmed \in BOOLEAN : ClearTimeline(confirmed)

SpecGen == Init /\ [][NextGen]_vars

\* The auto-generation runs alone: the mode and its count, the start and
\* stop buttons, the requests and the throttle.
NextAutoRun ==
  \/ EnableAutoGeneration
  \/ \E v \in CountInputs : SetAutoGenCount(v)
  \/ \E inputOk \in BOOLEAN : HandleStartGeneration(inputOk, FALSE)
  \/ \E p \in Procs : GenerationSucceeds(p)
  \/ \E p \in Procs, msg \in VideoErrors : GenerationFails(p, msg)
  \/ \E p \in Procs : ThrottleElapsed(p)
  \/ HandleStopAuto

\* The scheduling of the browser: a pending generateVeoVideo promise
\* settles, and the setTimeout of the throttle (571) fires.
GenerationSettles(p) ==
  \/ GenerationSucceeds(p)
  \/ \E msg \in VideoErrors : GenerationFails(p, msg)

FairGen ==
  \A p \in Procs : WF_vars(GenerationSettles(p)) /\ WF_vars(ThrottleElapsed(p))

SpecAutoRun == Init /\ [][NextAutoRun]_vars /\ FairGen

\* The cooldown alone: single generations and voiceover calls that may
\* fail, the interval of the countdown and the key button of the error
\* panel.
NextCoolDown ==
  \/ HandleStartGeneration(TRUE, FALSE)
  \/ \E p \in Procs : GenerationSucceeds(p)
  \/ \E p \in Procs, msg \in VideoErrors : GenerationFails(p, msg)
  \/ HandleGenerateVoiceover(FALSE, FALSE)
  \/ \E msg \in AudioErrors : VoiceoverGenerationFails(msg)
  \/ CoolDownTick
  \/ HandleSelectKey

\* The scheduling of the browser: the setInterval of line 235 fires while
\* the effect keeps it registered, that is while coolDown > 0.
FairCoolDown == WF_vars(CoolDownTick)

SpecCoolDown == Init /\ [][NextCoolDown]_vars /\ FairCoolDown

\* The generation side with the cooldown running and the voiceover calls
\* that fail.
NextQuota ==
  \/ NextGen
  \/ CoolDownTick
  \/ \E useAutoScript \in BOOLEAN, blank \in BOOLEAN :
       HandleGenerateVoiceover(useAutoScript, blank)
  \/ VoiceoverScriptResolves
  \/ \E msg \in AudioErrors : VoiceoverGenerationFails(msg)

SpecQuota == Init /\ [][NextQuota]_vars

\* The audio side alone: single generations that succeed, clear, scene
\* selection, manual voiceover and auto-narration, the clock of the cooldown
\* stopped.
NextAudio ==
  \/ \E inputOk \in BOOLEAN, autoAudio \in BOOLEAN :
       HandleStartGeneration(inputOk, autoAudio)
  \/ \E p \in Procs : GenerationSucceeds(p)
  \/ ClockTick
  \/ \E confirmed \in BOOLEAN : ClearTimeline(confirmed)
  \/ \E idx \in 0..(MaxClock - 1) : SceneCardClick(idx)
  \/ \E useAutoScript \in BOOLEAN, blank \in BOOLEAN :
       HandleGenerateVoiceover(useAutoScript, blank)
  \/ VoiceoverScriptResolves
  \/ \E msg \in AudioErrors : VoiceoverGenerationFails(msg)
  \/ VoiceoverSpeechResolves
  \/ VoiceoverMergeResolves
  \/ VoiceoverMergeRejects
  \/ \E t \in narrations : NarrationScriptResolves(t)
  \/ \E t \in narrations : NarrationSpeechResolves(t)
  \/ \E t \in narrations : NarrationMergeResolves(t)
  \/ \E t \in narrations : NarrationFails(t)

SpecAudio == Init /\ [][NextAudio]_vars

\* The playback side: single generations that succeed, the transition
\* buttons, movie mode and its two timers.
NextPlay ==
  \/ \E inputOk \in BOOLEAN : HandleStartGeneration(inputOk, FALSE)
  \/ \E p \in Procs : GenerationSucceeds(p)
  \/ \E idx \in 0..(MaxClock - 1) : SceneCardClick(idx)
  \/ HandlePlayAll
  \/ DurationTimerFires
  \/ TransitionTimerFires
  \/ Tick(TickMs)
  \/ ToggleLooping
  \/ \E idx \in 0..(MaxClock - 2) : ToggleTransition(idx)

SpecPlay == Init /\ [][NextPlay]_vars

\* Movie mode over a timeline that is cleared and filled again while it
\* plays.
NextIndex ==
  \/ HandleStartGeneration(TRUE, FALSE)
  \/ \E p \in Procs : GenerationSucceeds(p)
  \/ ClearTimeline(TRUE)
  \/ \E idx \in 0..(MaxClock - 1) : SceneCardClick(idx)
  \/ HandlePlayAll
  \/ DurationTimerFires
  \/ TransitionTimerFires
  \/ Tick(NextDue)
  \/ ToggleTransition(0)

SpecIndex == Init /\ [][NextIndex]_vars

\* Manual voiceover and auto-narration over a timeline that grows and is
\* cleared; a generation is started when no narration task is still
\* waiting for its script or its speech.
NextMerging ==
  \/ /\ \A t \in narrations : t.pc = "merge"
     /\ HandleStartGeneration(TRUE, TRUE)
  \/ \E p \in Procs : GenerationSucceeds(p)
  \/ ClearTimeline(TRUE)
  \/ HandleGenerateVoiceover(FALSE, FALSE)
  \/ VoiceoverSpeechResolves
  \/ VoiceoverMergeResolves
  \/ VoiceoverMergeRejects
  \/ \E t \in narrations : NarrationScriptResolves(t)
  \/ \E t \in narrations : NarrationSpeechResolves(t)
  \/ \E t \in narrations : NarrationMergeResolves(t)
  \/ \E t \in narrations : NarrationFails(t)

\* a pending mergeVideoAudio promise settles (406, 499)
ManualMergeSettles == VoiceoverMergeResolves \/ VoiceoverMergeRejects
NarrationMergeSettles ==
  \E t \in narrations :
     t.pc = "merge" /\ (NarrationMergeResolves(t) \/ NarrationFails(t))

FairMerge == WF_vars(ManualMergeSettles) /\ WF_vars(NarrationMergeSettles)

SpecMerging == Init /\ [][NextMerging]_vars /\ FairMerge

\* Movie mode and single-scene mode with the ended events of the two
\* video elements.
NextEnded ==
  \/ HandleStartGeneration(TRUE, FALSE)
  \/ \E p \in Procs : GenerationSucceeds(p)
  \/ \E idx \in 0..(MaxClock - 1) : SceneCardClick(idx)
  \/ HandlePlayAll
  \/ DurationTimerFires
  \/ TransitionTimerFires
  \/ Tick(NextDue)
  \/ ToggleLooping
  \/ ToggleTransition(0)
  \/ \E player \in {"A", "B"} : PlayerOnEnded(player)

SpecEnded == Init /\ [][NextEnded]_vars

\* Movie mode over scenes that receive a voiceover; time passes from one
\* timer to the next.
NextPlayAudio ==
  \/ \E inputOk \in BOOLEAN : HandleStartGeneration(inputOk, FALSE)
  \/ \E p \in Procs : GenerationSucceeds(p)
  \/ \E idx \in 0..(MaxClock - 1) : SceneCardClick(idx)
  \/ HandlePlayAll
  \/ DurationTimerFires
  \/ Tick(NextDue)
  \/ AudioEnds
  \/ \E blank \in BOOLEAN : HandleGenerateVoiceover(FALSE, blank)
  \/ VoiceoverSpeechResolves
  \/ VoiceoverMergeResolves
  \/ VoiceoverMergeRejects

SpecPlayAudio == Init /\ [][NextPlayAudio]_vars

\* The scene settings alone, movie mode off.
NextSettings ==
  \/ \E inputOk \in BOOLEAN : HandleStartGeneration(inputOk, FALSE)
  \/ \E p \in Procs : GenerationSucceeds(p)
  \/ \E idx \in 0..(MaxClock - 1) : SceneCardClick(idx)
  \/ \E confirmed \in BOOLEAN : ClearTimeline(confirmed)
  \/ \E s \in DurationInputs : HandleDurationChange(s)
  \/ \E idx \in 0..(MaxClock - 2) : ToggleTransition(idx)

SpecSettings == Init /\ [][NextSettings]_vars

\* The timeline and the selection under every operation that writes them:
\* append, clear, the selection checkbox, the duration slider, the first
\* transition button, and a manual voiceover with its merge.
NextTimeline ==
  \/ \E inputOk \in BOOLEAN : HandleStartGeneration(inputOk, FALSE)
  \/ \E p \in Procs : GenerationSucceeds(p)
  \/ \E confirmed \in BOOLEAN : ClearTimeline(confirmed)
  \/ \E id \in 1..MaxClock : ToggleSceneSelection(id)
  \/ ToggleTransition(0)
  \/ HandleDurationChange(MinSceneDuration)
  \/ HandleGenerateVoiceover(FALSE, FALSE)
  \/ VoiceoverSpeechResolves
  \/ VoiceoverMergeResolves
  \/ VoiceoverMergeRejects

SpecTimeline == Init /\ [][NextTimeline]_vars

\* retryOperation alone, over every sequence of outcomes of the operation
NextRetry ==
  \/ \E delay \in RetryDelays : RetryOperationCall(delay)
  \/ OperationResolves
  \/ \E e \in RetryErrors : OperationRejects(e)
  \/ RetryWaitElapses

SpecRetry == Init /\ [][NextRetry]_vars

\* One auto-generation run at a time with auto-narration on: the loop, its
\* stop button and the detached narration tasks of its scenes.
NextNarration ==
  \/ EnableAutoGeneration
  \/ /\ \A p \in Procs : proc[p].pc = "idle"
     /\ \E inputOk \in BOOLEAN : HandleStartGeneration(inputOk, TRUE)
  \/ \E p \in Procs : GenerationSucceeds(p)
  \/ \E p \in Procs, msg \in VideoErrors : GenerationFails(p, msg)
  \/ \E p \in Procs : ThrottleElapsed(p)
  \/ HandleStopAuto
  \/ \E t \in narrations : NarrationScriptResolves(t)
  \/ \E t \in narrations : NarrationSpeechResolves(t)
  \/ \E t \in narrations : NarrationMergeResolves(t)
  \/ \E t \in narrations : NarrationFails(t)

SpecNarration == Init /\ [][NextNarration]_vars

\* mergeVideoAudio alone, over every order of the events of its elements
NextMerge ==
  \/ MergeVideoAudioCall
  \/ VideoOnError
  \/ VideoOnLoadedMetadata
  \/ AudioSetupFails
  \/ AudioDecoded
  \/ \E playOk \in BOOLEAN : VideoOnCanPlayThrough(playOk)
  \/ VideoOnEnded
  \/ \E k \in 1..(MaxLoads + 1) : RecorderOnStop(k)

SpecMerge == Init /\ [][NextMerge]_vars

\* ------------------------------------------------------------------------
\* Claims
\* ------------------------------------------------------------------------

Scenes == 1..Len(timeline)

\* a merge for the scene with this id is in flight
MergePendingFor(id) ==
  \/ vo.pc = "merge" /\ vo.snap.id = id
  \/ \E t \in narrations : t.pc = "merge" /\ t.id = id

\* C1: in every reachable state every scene that has a mergedUrl has an
\* audioUrl.
C1_MergedImpliesAudio ==
  \A i \in Scenes : timeline[i].mergedUrl # NoMerge => timeline[i].audioUrl # NoUrl

\* C2: a scene's mergedUrl is the merge of the scene's current videoUrl with
\* its current audioUrl, also while a new merge is pending and after it
\* failed.
C2_MergedFromCurrentPair ==
  \A i \in Scenes :
    timeline[i].mergedUrl # NoMerge =>
      timeline[i].mergedUrl = <<timeline[i].url, timeline[i].audioUrl>>

\* the step keeps every scene whose id is not id as it is, in its place
OnlySceneChanged(id) ==
  /\ Len(timeline') = Len(timeline)
  /\ \A i \in Scenes : timeline[i].id # id => timeline'[i] = timeline[i]

\* C3: the patches of a voiceover or narration task (audioUrl, audioScript,
\* mergedUrl, isMerging) change no scene but the one, identified by id, the
\* task was started for.
C3_PatchesOnlyOwnScene ==
  [][ /\ (VoiceoverSpeechResolves \/ VoiceoverMergeResolves \/ VoiceoverMergeRejects)
         => OnlySceneChanged(vo.snap.id)
      /\ \A t \in narrations :
           (NarrationSpeechResolves(t) \/ NarrationMergeResolves(t) \/ NarrationFails(t))
           => OnlySceneChanged(t.id) ]_vars

\* after the failed merge of the task started for scene id: that scene is
\* in place with isMerging false, no mergedUrl, its url and duration as
\* they were, and every other scene as it was
MergeFailureLeaves(id) ==
  /\ OnlySceneChanged(id)
  /\ \A i \in Scenes :
       timeline[i].id = id =>
         /\ timeline'[i].id = id
         /\ timeline'[i].isMerging = FALSE
         /\ timeline'[i].mergedUrl = NoMerge
         /\ timeline'[i].url = timeline[i].url
         /\ timeline'[i].duration = timeline[i].duration

\* C4: when a merge fails the scene has isMerging false and no mergedUrl
\* afterwards, its url and duration are unchanged, it is still in the
\* timeline, and no other scene is changed.
C4_MergeFailureLeavesRawScene ==
  [][ /\ VoiceoverMergeRejects => MergeFailureLeaves(vo.snap.id)
      /\ \A t \in narrations :
           (t.pc = "merge" /\ NarrationFails(t)) => MergeFailureLeaves(t.id) ]_vars

\* C5: a scene's isMerging is true exactly while a merge for that scene is
\* in flight.
C5_IsMergingIffMergePending ==
  \A i \in Scenes : timeline[i].isMerging <=> MergePendingFor(timeline[i].id)

\* the step in which the generation call of the auto-generation run in slot
\* p fails
AutoCallFails(p) ==
  /\ proc[p].pc = "request" /\ proc[p].auto
  /\ \E msg \in VideoErrors : GenerationFails(p, msg)

\* the step in which the run in slot p, already past its first call, issues
\* its next generation request
NextRequestOfRun(p) ==
  /\ proc[p].pc # "idle"
  /\ proc'[p].pc = "request"
  /\ proc'[p].calls = proc[p].calls + 1

\* C6: when the k-th call of an auto-generation run fails, the run has
\* appended exactly k-1 scenes, it ends in that step without a further
\* call, the failing call appends nothing and the error is set.
C6_AutoRunHaltsOnFailure ==
  [][ \A p \in Procs :
        AutoCallFails(p) =>
          /\ proc[p].appended = proc[p].calls - 1
          /\ proc'[p].pc = "idle"
          /\ Len(timeline') = Len(timeline)
          /\ error' # NoError
          /\ runLog'.outcome = "failed"
          /\ runLog'.calls = proc[p].calls
          /\ runLog'.appended = proc[p].calls - 1 ]_vars

\* a run with N = 3 has ended on the failure of its 2nd call with 1 scene
\* appended
C6_Witness ==
  runLog = [N |-> 3, calls |-> 2, appended |-> 1, outcome |-> "failed"]

\* C7: a run issues a generation request after its first only when its
\* throttle timer of 5 s has fired.
C7_ThrottleBetweenRequests ==
  [][ \A p \in Procs :
        NextRequestOfRun(p) =>
          /\ proc[p].pc = "throttle"
          /\ proc[p].delay = ThrottleMs
          /\ ThrottleElapsed(p) ]_vars

\* a run has issued its second request
C7_Witness ==
  \E p \in Procs : proc[p].pc = "request" /\ proc[p].calls >= 2 /\ proc[p].auto

\* C8: a run that handleStopAuto has stopped issues no further generation
\* request.
C8_NoRequestAfterStop ==
  [][ \A p \in Procs : NextRequestOfRun(p) => ~proc[p].stopSeen ]_vars

\* C9: a failed generation call leaves the timeline as it was.
C9_FailureKeepsTimeline ==
  [][ /\ \A p \in Procs :
           (\E msg \in VideoErrors : GenerationFails(p, msg)) => timeline' = timeline
      /\ (error' = NoInputMessage /\ error # NoInputMessage) => timeline' = timeline
    ]_vars

\* the second call of an auto-generation run has failed and the scene of
\* its first call is in the timeline
C9_Witness ==
  /\ runLog.outcome = "failed" /\ runLog.calls = 2 /\ runLog.appended = 1
  /\ error = "Access Denied"
  /\ Len(timeline) = 1

\* C10: no generation request is issued while coolDown is greater than 0.
C10_NoRequestDuringCoolDown ==
  [][ \A p \in Procs :
        (proc'[p].pc = "request" /\ proc'[p].calls # proc[p].calls)
          => coolDown = 0 ]_vars

\* ------------------------------------------------------------------------
\* Movie mode: timers, buffers, transitions (SpecPlay, SpecPlayAudio)
\* ------------------------------------------------------------------------

\* the active scene, its buffer and its declared duration are the same
\* before and after the step, and movie mode is on throughout
SameSceneStaysActive ==
  /\ isPlayingAll /\ isPlayingAll'
  /\ HasScene(timeline, activeSceneIndex)
  /\ HasScene(timeline', activeSceneIndex')
  /\ activeSceneIndex' = activeSceneIndex
  /\ activePlayer' = activePlayer
  /\ timeline'[activeSceneIndex' + 1].duration
       = timeline[activeSceneIndex + 1].duration

\* C11: in movie mode a scene stays active for exactly its declared
\* duration whatever else happens meanwhile: while the same scene stays
\* active, a step that patches the timeline gives its duration timer no
\* more time than it had left.
C11_SceneActiveForItsDuration ==
  [][(SameSceneStaysActive /\ timeline' # timeline
        /\ playTimer # NoTimer /\ playTimer' # NoTimer)
       => playTimer' <= playTimer]_vars

\* C12: once movie mode is left, no timer scheduled earlier changes
\* activeSceneIndex, activePlayer or isTransitioning: a step in which the
\* timer of a transition window fires outside movie mode leaves the three
\* unchanged.
C12_NoStaleAdvanceAfterStop ==
  [][(~isPlayingAll /\ transTimer.ms = 0 /\ transTimer' = NoTransTimer)
       => UNCHANGED <<activeSceneIndex, activePlayer, isTransitioning>>]_vars

\* the active scene carries a merged asset
ActiveSceneMerged ==
  /\ HasScene(timeline, activeSceneIndex)
  /\ timeline[activeSceneIndex + 1].mergedUrl # NoMerge

\* C13: whenever the active scene has a mergedUrl the separate audio
\* element is paused.
C13_MergedSceneSilencesAudio == ActiveSceneMerged => ~audioPlaying

\* movie mode plays a merged scene whose voiceover the audio element had
\* been given before the merge arrived, and the audio element is paused
C13_Witness ==
  /\ ActiveSceneMerged /\ isPlayingAll
  /\ srcA = timeline[activeSceneIndex + 1].mergedUrl
  /\ audioSrc # NoUrl
  /\ audioSrc = timeline[activeSceneIndex + 1].audioUrl
  /\ ~audioPlaying

\* the buffer that getPlayerClasses shows in the current state
Shows(player) == Visible(player, activePlayer, isTransitioning, transitionType)

C15_BackBufferPreloaded ==
  [][(isPlayingAll /\ ~isTransitioning /\ isTransitioning')
       => LET back == IF activePlayer = "A" THEN srcB' ELSE srcA'
          IN  back = MediaOf(timeline[transTimer'.nextIndex + 1])]_vars

\* the duration timer expires in movie mode with a next scene available
ExpiryWithNextScene ==
  /\ DurationTimerFires
  /\ isPlayingAll
  /\ activeSceneIndex < Len(timeline) - 1

ExpiryAtLastScene ==
  /\ DurationTimerFires
  /\ isPlayingAll
  /\ activeSceneIndex = Len(timeline) - 1

\* C17: on expiry of the duration timer at the last scene, with isLooping
\* the index wraps to 0, the buffer flips and movie mode goes on; without,
\* movie mode ends with isTransitioning false and the index stays at the
\* last scene.
C17_EndOfTimeline ==
  [][ExpiryAtLastScene =>
       IF isLooping
       THEN /\ activeSceneIndex' = 0
            /\ activePlayer' = Flip(activePlayer)
            /\ isPlayingAll'
            /\ playTimer' = DurationMs(timeline[1])
       ELSE /\ ~isPlayingAll' /\ ~isTransitioning'
            /\ activeSceneIndex' = activeSceneIndex
            /\ playTimer' = NoTimer
    ]_vars

\* movie mode over two scenes has ended at the last one
C17_Witness ==
  /\ Len(timeline) = 2 /\ activeSceneIndex = 1 /\ activePlayer = "B"
  /\ ~isPlayingAll /\ ~isLooping /\ ~isTransitioning
  /\ playTimer = NoTimer /\ transTimer = NoTransTimer
  /\ srcB = MediaOf(timeline[2])

\* movie mode over two scenes has wrapped from the last scene to the first
C17_WitnessLoop ==
  /\ Len(timeline) = 2 /\ activeSceneIndex = 0 /\ activePlayer = "A"
  /\ isPlayingAll /\ isLooping
  /\ srcB = MediaOf(timeline[2]) /\ srcA = MediaOf(timeline[1])

\* C20: the advance from scene i to scene i + 1 uses the transition stored
\* on scene i + 1, and the control between scene i and scene i + 1 cycles
\* the transition of scene i + 1, never that of scene i.
C20_TransitionOnTarget ==
  [][/\ ExpiryWithNextScene =>
          /\ transitionType' = timeline[activeSceneIndex + 2].transition
          /\ isTransitioning' = (timeline[activeSceneIndex + 2].transition # "cut")
     /\ \A idx \in 0..(Len(timeline) - 2) :
          ToggleTransition(idx) =>
            /\ timeline'[idx + 1] = timeline[idx + 1]
            /\ timeline'[idx + 2].transition # timeline[idx + 2].transition
    ]_vars

\* a fade window is open for the advance to a scene stored with fade, from
\* a scene stored with slide
C20_Witness ==
  /\ isPlayingAll /\ isTransitioning /\ transTimer.ms # NoTimer
  /\ activeSceneIndex = 1 /\ Len(timeline) = 3
  /\ timeline[activeSceneIndex + 1].transition = "slide"
  /\ timeline[activeSceneIndex + 2].transition = "fade"
  /\ transitionType = "fade"

\* ------------------------------------------------------------------------
\* Scene settings (SpecSettings)
\* ------------------------------------------------------------------------

ClaimedCycle == [cut |-> "fade", fade |-> "slide", slide |-> "cut"]

\* C19: cycling the transition of a scene maps cut to fade, fade to slide
\* and slide to cut, so that three applications restore the value; no other
\* field of the scene and no other scene changes.
C19_TransitionCycle ==
  [][\A idx \in 0..(Len(timeline) - 2) :
       ToggleTransition(idx) =>
         LET old == timeline[idx + 2]
             new == timeline'[idx + 2]
         IN  /\ new.transition = ClaimedCycle[old.transition]
             /\ new = [old EXCEPT !.transition = new.transition]
             /\ NextTransition(NextTransition(new.transition)) = old.transition
             /\ Len(timeline') = Len(timeline)
             /\ \A i \in 1..Len(timeline) : i # idx + 2 =>
                  timeline'[i] = timeline[i]
    ]_vars

\* the transition of the second scene has been cycled to slide and that of
\* the third back to cut
C19_Witness ==
  /\ Len(timeline) = 3
  /\ timeline[2].transition = "slide"
  /\ timeline[3].transition = "cut"
  /\ timeline[1].transition = "cut"

\* ------------------------------------------------------------------------
\* The timeline as a collection (SpecTimeline, SpecGen)
\* ------------------------------------------------------------------------

\* C21: a confirmed clear yields a timeline of length 0, an empty selection
\* and activeSceneIndex 0 from whatever state it is taken in; a clear whose
\* confirmation is declined changes nothing.
C21_ClearResets ==
  [][/\ ClearTimeline(TRUE) =>
          /\ Len(timeline') = 0
          /\ selectedSceneIds' = {}
          /\ activeSceneIndex' = 0
     /\ ClearTimeline(FALSE) => UNCHANGED vars
    ]_vars

\* the timeline has been cleared after two scenes or more had been
\* generated (the clock counts the requests)
C21_Witness ==
  /\ Len(timeline) = 0 /\ selectedSceneIds = {} /\ activeSceneIndex = 0
  /\ now >= 2
  /\ \A p \in Procs : proc[p].pc = "idle"

\* tl2 keeps the scenes of tl, by id, in their places
KeepsScenes(tl, tl2) ==
  /\ Len(tl2) >= Len(tl)
  /\ \A i \in 1..Len(tl) : tl2[i].id = tl[i].id

\* C22: the timeline is append-only except for clear: a successful
\* generation makes it one longer with the new scene last, so that N of them
\* from an empty timeline give N scenes in completion order; every step that
\* is not a confirmed clear keeps the ids and the order of the scenes that
\* exist, and only a successful generation changes the length.
C22_AppendOnly ==
  [][/\ \A p \in Procs :
          GenerationSucceeds(p) =>
            /\ Len(timeline') = Len(timeline) + 1
            /\ timeline'[Len(timeline')].url = proc[p].req
            /\ SubSeq(timeline', 1, Len(timeline)) = timeline
     /\ ~ClearTimeline(TRUE) =>
          /\ KeepsScenes(timeline, timeline')
          /\ (Len(timeline') # Len(timeline)) =>
                \E p \in Procs : GenerationSucceeds(p)
    ]_vars

\* three scenes in completion order, the first two patched since: one by
\* the slider, one by a voiceover and by the transition button
C22_Witness ==
  /\ Len(timeline) = 3
  /\ \A i \in 1..3 : timeline[i].url = i
  /\ timeline[2].transition # "cut"
  /\ \E i \in 1..3 : timeline[i].audioUrl # NoUrl
  /\ \E i \in 1..3 : timeline[i].duration = MinSceneDuration
  /\ selectedSceneIds # {}

\* C23: the ids of the scenes of the timeline are pairwise distinct, also
\* when two generation calls complete at the same clock reading.
C23_IdsDistinct ==
  \A i \in 1..Len(timeline), j \in 1..Len(timeline) :
     i # j => timeline[i].id # timeline[j].id

\* C24: a successful generation appends the new scene at the end of the
\* timeline and makes it the active scene; the new scene has transition
\* cut, no audioUrl, no mergedUrl, and isMerging not set.
C24_AppendMakesActive ==
  [][\A p \in Procs :
       GenerationSucceeds(p) =>
         LET new == timeline'[Len(timeline')]
         IN  /\ Len(timeline') = Len(timeline) + 1
             /\ \A i \in 1..Len(timeline) : timeline'[i] = timeline[i]
             /\ new.url = proc[p].req
             /\ activeSceneIndex' = Len(timeline') - 1
             /\ new.transition = "cut"
             /\ new.audioUrl = NoUrl
             /\ new.mergedUrl = NoMerge
             /\ ~new.isMerging
    ]_vars

\* a second scene has been appended and is the active one
C24_Witness ==
  /\ Len(timeline) = 2 /\ activeSceneIndex = 1
  /\ timeline[2].url = 2 /\ timeline[2].transition = "cut"
  /\ timeline[1].url = 1

\* ------------------------------------------------------------------------
\* retryOperation (SpecRetry)
\* ------------------------------------------------------------------------

\* the waits of a call that has waited n times: delay, 2 * delay, 4 * delay
RECURSIVE DoublingWaits(_, _)
DoublingWaits(n, first) ==
  IF n = 0 THEN <<>> ELSE <<first>> \o DoublingWaits(n - 1, 2 * first)

\* C25: retryOperation retries only after a failure with a 503 error; with
\* the default cap of 3 retries the operation is attempted at most 4
\* times, each wait is double the one before (delay, 2 * delay, 4 * delay),
\* and once the cap is used up the last error is passed on to the caller.
C25_RetryOnOverloadOnly ==
  [][\A e \in RetryErrors :
       OperationRejects(e) =>
         /\ retryCall'.pc = "wait" =>
              ("503" \in e.msg \/ e.status = "503")
         /\ retryCall.attempts <= 4
         /\ retryCall.waits =
              DoublingWaits(retryCall.attempts - 1, retryCall.first)
         /\ retryCall.attempts = 4 =>
              /\ retryCall'.pc = "threw"
              /\ retryCall'.waits = <<retryCall.first, 2 * retryCall.first,
                                      4 * retryCall.first>>
              /\ (~IsResourceExhausted(e) => retryCall'.thrown = e)
    ]_vars

\* the operation failed four times with a 503; the fourth error reached
\* the caller after waits of 10, 20 and 40 seconds
C25_Witness ==
  /\ retryCall.pc = "threw"
  /\ retryCall.attempts = 4
  /\ retryCall.waits = <<10000, 20000, 40000>>
  /\ retryCall.thrown.status = "503"

\* C26: an operation that fails with a quota or access error, or with any
\* error that is no 503, is not attempted again: the error is rethrown in
\* the same step without a wait, so that a first failure of this kind
\* leaves one attempt; the message of a quota error contains
\* RESOURCE_EXHAUSTED when it reaches the caller.
C26_FailFast ==
  [][\A e \in RetryErrors :
       (/\ OperationRejects(e)
        /\ \/ IsResourceExhausted(e)
           \/ IsAuthError(e)
           \/ ~("503" \in e.msg \/ e.status = "503"))
       => /\ retryCall'.pc = "threw"
          /\ retryCall'.attempts = retryCall.attempts
          /\ retryCall'.waits = retryCall.waits
          /\ retryCall.waits = <<>> => retryCall'.attempts = 1
          /\ IsResourceExhausted(e) =>
               "RESOURCE_EXHAUSTED" \in retryCall'.thrown.msg
          /\ ~IsResourceExhausted(e) => retryCall'.thrown = e
    ]_vars

\* a quota error known by its status 429 alone reached the caller after
\* one attempt, with its message marked
C26_Witness ==
  /\ retryCall.pc = "threw"
  /\ retryCall.attempts = 1 /\ retryCall.waits = <<>>
  /\ retryCall.thrown.msg = {"RESOURCE_EXHAUSTED"}
  /\ retryCall.wrapped

\* ------------------------------------------------------------------------
\* mergeVideoAudio (SpecMerge)
\* ------------------------------------------------------------------------

\* the step starts the playback of the video, the audio source or a
\* recorder
PlaybackOrCaptureBegins ==
  \/ merge'.videoPlaying /\ ~merge.videoPlaying
  \/ merge'.audioStarted /\ ~merge.audioStarted
  \/ \E k \in 1..Len(merge'.recorders) :
        /\ merge'.recorders[k] = "recording"
        /\ (k > Len(merge.recorders) \/ merge.recorders[k] # "recording")

\* C27: in mergeVideoAudio neither the video nor the audio nor the capture
\* starts before the video has signalled canplaythrough and the audio has
\* been fetched and decoded.
C27_StartAfterBothReady ==
  [][(merge.pc = "run" /\ PlaybackOrCaptureBegins)
       => /\ merge'.loading = "ready"
          /\ Len(merge.recorders) >= 1
          /\ merge.canplay
    ]_vars

\* video and audio play and the one recorder records, after the decode and
\* the canplaythrough of the reloaded video
C27_Witness ==
  /\ merge.pc = "run"
  /\ merge.videoPlaying /\ merge.audioStarted
  /\ merge.recorders = <<"recording">>
  /\ merge.loading = "ready" /\ merge.settled = "pending"

\* C28: every call of mergeVideoAudio that has settled, resolved or
\* rejected, has closed its audio context and removed its video element.
C28_SettledMergeReleased ==
  (merge.pc = "run" /\ merge.settled # "pending")
    => (~merge.ctxOpen /\ ~merge.videoKept)

\* ------------------------------------------------------------------------
\* Auto-narration beside the auto-generation loop (SpecNarration)
\* ------------------------------------------------------------------------

\* a step of a narration task: one of its awaits resolves or rejects
NarrationStep ==
  \E t \in narrations :
     \/ NarrationScriptResolves(t)
     \/ NarrationSpeechResolves(t)
     \/ NarrationMergeResolves(t)
     \/ NarrationFails(t)

\* C29: with auto-narration on, the auto-generation loop never waits for a
\* narration task: the step that appends a scene starts the task and goes
\* straight on to the throttle, the next request or the end of the run as
\* count and stop flag say; and no step of a narration task, failure
\* included, changes the loop, its stop flag, the cooldown or the error.
C29_NarrationDetached ==
  [][/\ \A p \in Procs :
          (GenerationSucceeds(p) /\ proc[p].auto /\ proc[p].autoAudio) =>
             /\ \E t \in narrations' \ narrations :
                   t.pc = "script" /\ t.url = proc[p].req
             /\ proc'[p].pc =
                  IF proc[p].count + 1 < proc[p].N /\ ~stopAutoGeneration
                  THEN "throttle" ELSE "idle"
     /\ NarrationStep =>
          UNCHANGED <<proc, isGenerating, isAutoGenerating, autoGenCount,
                      stopAutoGeneration, coolDown, error, runLog>>
    ]_vars

\* the second request of an auto run is in flight while the narration of
\* its first scene still waits for its script, and no error is shown
C29_Witness ==
  /\ \E p \in Procs :
        /\ proc[p].pc = "request" /\ proc[p].auto /\ proc[p].autoAudio
        /\ proc[p].calls = 2 /\ proc[p].count = 1
  /\ Len(timeline) = 1
  /\ \E t \in narrations : t.id = timeline[1].id /\ t.pc = "script"
  /\ error = NoError

\* ------------------------------------------------------------------------
\* Precedence of the merged asset (SpecPlayAudio)
\* ------------------------------------------------------------------------

\* the source of the buffer named by activePlayer
ActiveSrc == IF activePlayer = "A" THEN srcA ELSE srcB

\* the active player holds the merged asset of a merged active scene
PlaybackUsesMerged ==
  ActiveSceneMerged => ActiveSrc = timeline[activeSceneIndex + 1].mergedUrl

\* the downloads and the project archive take the merged asset of every
\* merged scene
ExportUsesMerged ==
  \A i \in 1..Len(timeline) :
     timeline[i].mergedUrl # NoMerge =>
        /\ DownloadUrl(timeline[i]) = timeline[i].mergedUrl
        /\ ZipVideo(timeline[i]) = timeline[i].mergedUrl

\* C30: whenever a scene has a mergedUrl, the media used for it in playback
\* (the source of the active player, in single-scene and in movie mode) and
\* in download and export is the mergedUrl, never the raw video url.
C30_MergedTakesPrecedence == PlaybackUsesMerged /\ ExportUsesMerged


\* ------------------------------------------------------------------------
\* Media handles of discarded scenes (SpecTimeline)
\* ------------------------------------------------------------------------

\* C31: when a confirmed clear discards the scenes, every object url they
\* own (the video url, and the audio and merged urls if present) is
\* released: after the clear none of them is live.
C31_ClearReleasesUrls ==
  [][ClearTimeline(TRUE) =>
        LET owned == UrlsOf(timeline)
        IN  /\ owned.video \cap liveUrls'.video = {}
            /\ owned.audio \cap liveUrls'.audio = {}
            /\ owned.merged \cap liveUrls'.merged = {}
    ]_vars


\* ------------------------------------------------------------------------
\* Selection (SpecTimeline)
\* ------------------------------------------------------------------------

\* C32: toggleSceneSelection(id) adds id to the selection if it is absent
\* and removes it if it is present, so that a second application restores
\* the selection; it leaves the timeline, activeSceneIndex and the playback
\* state as they are.
C32_ToggleSelection ==
  [][\A id \in 1..MaxClock :
       ToggleSceneSelection(id) =>
         /\ id \notin selectedSceneIds =>
              selectedSceneIds' = selectedSceneIds \cup {id}
         /\ id \in selectedSceneIds =>
              selectedSceneIds' = selectedSceneIds \ {id}
         /\ Toggled(selectedSceneIds', id) = selectedSceneIds
         /\ UNCHANGED <<timeline, activeSceneIndex, modeVars, effectVars>>
    ]_vars

\* the first of two scenes is selected while the second is still the
\* active one
C32_Witness ==
  /\ Len(timeline) = 2
  /\ selectedSceneIds = {timeline[1].id}
  /\ activeSceneIndex = 1


\* ------------------------------------------------------------------------
\* Continuation of the last scene (SpecGen)
\* ------------------------------------------------------------------------

\* invocation p issues a generation request in this step
IssuesRequest(p) ==
  /\ proc'[p].pc = "request"
  /\ proc'[p].calls # proc[p].calls

\* C33: a generation request issued while the timeline is not empty is a
\* continuation of the scene that is last in the timeline at that moment:
\* it is sent as an extension with that scene's asset; so in an auto run
\* every iteration after the first continues the scene the iteration
\* before it appended.
C33_ContinuesLastScene ==
  [][\A p \in Procs :
       (IssuesRequest(p) /\ Len(timeline') > 0) =>
          /\ proc'[p].ext
          /\ proc'[p].base = timeline'[Len(timeline')].asset
    ]_vars


\* ------------------------------------------------------------------------
\* One run at a time (SpecGen)
\* ------------------------------------------------------------------------

\* the invocations with a generation request in flight
RequestsInFlight == {p \in Procs : proc[p].pc = "request"}

\* the auto-generation loops that have not returned
LoopsRunning == {p \in Procs : proc[p].pc # "idle" /\ proc[p].auto}

\* at most one generation request is in flight
OneRequestInFlight == Cardinality(RequestsInFlight) <= 1

\* at most one auto-generation loop is running
OneLoopRunning == Cardinality(LoopsRunning) <= 1

\* C34: at most one generation request is in flight and at most one
\* auto-generation loop is running at any time, the 5 s throttle delay of
\* a run included.
C34_OneRunAtATime == OneRequestInFlight /\ OneLoopRunning


\* ------------------------------------------------------------------------
\* Termination of an auto-generation run (SpecAutoRun)
\* ------------------------------------------------------------------------

\* the auto-generation loop of invocation p has not returned
LoopAlive(p) == proc[p].pc # "idle" /\ proc[p].auto

\* the loop waits for its next request at the last clock reading of the
\* model, where no further request is issued
ClockUsedUp(p) == proc[p].pc = "throttle" /\ now = MaxClock

\* the step in which the loop of invocation p returns
LoopReturns(p) == LoopAlive(p) /\ proc'[p].pc = "idle"

\* an auto-generation loop issues at most N requests, N being the count of
\* 1..20 read at its start
RunBounded ==
  \A p \in Procs :
     LoopAlive(p) =>
        /\ proc[p].N \in MinAutoGenCount..MaxAutoGenCount
        /\ proc[p].calls <= proc[p].N

\* once its requests have settled and its timers have fired the loop
\* returns
RunTerminates ==
  \A p \in Procs : LoopAlive(p) ~> (~LoopAlive(p) \/ ClockUsedUp(p))

\* when the loop returns, after N scenes, a stop or a failure,
\* isGenerating and isAutoGenerating are false
RunEndsIdle ==
  [][\A p \in Procs :
       LoopReturns(p) =>
          /\ ~isGenerating' /\ ~isAutoGenerating'
          /\ runLog'.outcome \in {"completed", "stopped", "failed"}
          /\ runLog'.calls <= runLog'.N
    ]_vars

\* C35: every auto-generation run terminates: it issues at most N requests
\* (N = the count of 1..20 fixed at its start), and once its requests have
\* settled it ends with isAutoGenerating and isGenerating false, whether it
\* ended by reaching N, by a stop or by a failure.
C35_AutoRunTerminates == []RunBounded /\ RunTerminates /\ RunEndsIdle


\* ------------------------------------------------------------------------
\* The active index (SpecIndex)
\* ------------------------------------------------------------------------

\* C36: whenever the timeline is not empty, activeSceneIndex is the index
\* of one of its scenes, after any interleaving of append, clear, clicks on
\* scene cards, play-all, timer-driven advances and transition windows.
C36_ActiveIndexValid ==
  Len(timeline) > 0 => HasScene(timeline, activeSceneIndex)


\* ------------------------------------------------------------------------
\* The visible buffer outside movie mode (SpecPlayAudio)
\* ------------------------------------------------------------------------

\* C37: whenever movie mode is off and the timeline is not empty, the
\* buffer named by activePlayer is buffer A, the one single-scene mode
\* loads with the media of the active scene; also after a movie has ended
\* on its own at the last scene.
C37_SingleModeShowsA ==
  (~isPlayingAll /\ Len(timeline) > 0) => activePlayer = "A"


\* ------------------------------------------------------------------------
\* The ended events of the video elements (SpecEnded)
\* ------------------------------------------------------------------------

\* C38: an ended event of either video element changes neither
\* activeSceneIndex nor activePlayer nor isPlayingAll nor isTransitioning
\* nor a timer; in movie mode its handler does nothing, and in single-scene
\* mode it plays the active buffer again when isLooping is true and does
\* nothing otherwise.
C38_EndedEventAdvancesNothing ==
  [][\A player \in {"A", "B"} :
       PlayerOnEnded(player) =>
         /\ UNCHANGED <<timeline, activeSceneIndex, activePlayer,
                        isPlayingAll, isTransitioning, transTimer,
                        playTimer, srcA, srcB>>
         /\ isPlayingAll => lastEnded'.played = "none"
         /\ (~isPlayingAll /\ ~isLooping) => lastEnded'.played = "none"
         /\ (~isPlayingAll /\ isLooping) => lastEnded'.played = activePlayer
    ]_vars

\* buffer B ended while the movie shows scene 1 on it and the duration
\* timer of the scene is pending: the handler played nothing
C38_Witness ==
  /\ isPlayingAll /\ activePlayer = "B" /\ activeSceneIndex = 1
  /\ playTimer > 0
  /\ lastEnded = [player |-> "B", played |-> "none"]

\* buffer A ended in single-scene mode with looping on and was played again
C38_WitnessLoop ==
  /\ ~isPlayingAll /\ isLooping /\ activePlayer = "A"
  /\ lastEnded = [player |-> "A", played |-> "A"]


\* ------------------------------------------------------------------------
\* The end of isMerging (SpecMerging)
\* ------------------------------------------------------------------------

\* the scene at position i of the timeline is marked as merging
MergingAt(i) == i <= Len(timeline) /\ timeline[i].isMerging

\* C39: every scene whose isMerging flag is true eventually has it false
\* or has left the timeline, provided every merge call settles; no
\* interleaving of manual voiceover, auto-narration, append and clear
\* leaves a scene of the timeline marked as merging forever.
C39_MergingEnds ==
  \A i \in 1..MaxClock : MergingAt(i) ~> ~MergingAt(i)

\* the merge of the first scene has ended with a merged asset while the
\* second scene is marked as merging by its narration task
C39_Witness ==
  /\ Len(timeline) = 2
  /\ timeline[1].mergedUrl # NoMerge /\ ~timeline[1].isMerging
  /\ timeline[2].isMerging
  /\ \E t \in narrations : t.pc = "merge" /\ t.id = timeline[2].id


\* ------------------------------------------------------------------------
\* C40: once a quota error has set the cooldown (60 for video generation,
\* 30 for audio generation), the counter goes down by exactly 1 per second,
\* is never negative, never goes up without a new quota error, and reaches 0
\* in the end, after which a start is accepted again.
\* ------------------------------------------------------------------------

\* a step in which a new quota error sets the cooldown
QuotaErrorStep ==
  \/ \E p \in Procs, msg \in VideoErrors :
       IsVideoQuotaError(msg) /\ GenerationFails(p, msg) /\ coolDown' = 60
  \/ \E msg \in AudioErrors :
       /\ IsAudioQuotaError(msg)
       /\ VoiceoverGenerationFails(msg)
       /\ coolDown' = 30

\* every other change of the counter takes exactly 1 off a positive value
CoolDownByOne ==
  [][coolDown' # coolDown =>
       \/ QuotaErrorStep
       \/ coolDown > 0 /\ coolDown' = coolDown - 1]_vars

CoolDownRunsOut == (coolDown > 0) ~> (coolDown = 0)

\* with the counter at 0 and no generation under way the start is taken
StartAccepted ==
  (coolDown = 0 /\ ~isGenerating /\ FreeProcs # {} /\ now < MaxClock)
    => ENABLED HandleStartGeneration(TRUE, FALSE)

C40_CoolDownCountsDown ==
  /\ CoolDownByOne
  /\ [](coolDown >= 0)
  /\ CoolDownRunsOut
  /\ []StartAccepted

====
